---- MODULE Spec2Model ----
(***************************************************************************)
(* Crawl engine of the website scanner.                                    *)
(*                                                                         *)
(* Two implementations of the crawl loop exist in the repository:          *)
(*   variant = "server"  : WebsiteScanner of src/api/src/scanner.js        *)
(*   variant = "browser" : WebsiteScanner of src/dist/app.js (the global   *)
(*                         scanner driven by startScan / stopScan)         *)
(* URLs are strings, modelled as sequences of one-character strings so     *)
(* that parsing, normalisation and substring matching are computed.        *)
(*                                                                         *)
(*   Spec        : the server scanner, crawl(url) called again and again   *)
(*   SpecLive    : Spec with the fairness of the crawl() coroutine         *)
(*   SpecBrowser : the browser scanner with its Scan and Stop buttons, a   *)
(*                 scan being started once the previous call has returned  *)
(*   SpecStopStart : the browser scanner, Scan also pressed after Stop     *)
(*                 while the stopped call still waits for its fetch        *)
(*   SpecServer  : the API server running scans side by side, each on the  *)
(*                 WebsiteScanner object it creates                        *)
(*   SpecMethods : the methods of the scanners that compute a value from   *)
(*                 their inputs, each called on inputs of a bounded set    *)
(*   SpecProxy   : fetchWithFallback of the browser's ProxyManager, called *)
(*                 again and again on one manager                          *)
(*   SpecQuick, SpecQuickLive : quickScan of the serverless function       *)
(*   SpecQueue, SpecQueueLive : the API server with its job queue, the     *)
(*                 worker callback and a client waiting for a batch        *)
(*                                                                         *)
(* crawl() is a coroutine: it is cut at its awaits (the fetch, the delay); *)
(* other handlers run only while it waits there.                           *)
(***************************************************************************)
EXTENDS Integers, Sequences, FiniteSets, TLC

VARIABLES
  variant,            \* which implementation runs
  maxPages,           \* this.options.maxPages / this.maxPages
  maxDepth,           \* this.options.maxDepth / this.maxDepth
  minQualityScore,    \* this.options.minQualityScore (server only)
  visited,            \* this.visited
  queue,              \* this.queue
  siteMap,            \* this.siteMap : url -> page record
  pageRelationships,  \* this.pageRelationships : parent -> children
  pagesScanned,       \* this.pagesScanned
  startUrl,           \* this.startUrl
  baseDomain,         \* this.baseDomain
  scanning,           \* this.scanning (browser only)
  pc,                 \* position of the crawl() coroutine
  cur,                \* the frontier entry of the iteration in progress
  urlArg,             \* the raw url given to the current crawl() call
  attempts,           \* history: page attempts of the current crawl
  skipped,            \* history: the entries skipped by `continue`
  events,             \* history: pagesScanned of each progress event
  failedUrls,         \* history: urls whose fetch returned null
  cancelled,          \* history: stopScan() was called during this crawl
  fresh,              \* history: crawl() has initialised, no iteration yet
  runs,               \* number of crawl() calls so far
  orphan,             \* browser: an earlier crawl() call that is still waiting
  arg,                \* the call of a scanner method on its own: method, inputs
  ret,                \* what that call returned
  heap,               \* server: the WebsiteScanner objects created so far
  scans,              \* server: scanResults and the processScanDirectly calls
  workingProxies,     \* ProxyManager.workingProxies : domain -> proxy
  proxyFetch,         \* the fetchWithFallback() call: position, loop index, history
  quick,              \* the quickScan() call of the serverless function: its locals
  queueOn,            \* server: scanQueue is not null
  waiting,            \* server: the jobs added to scanQueue and not yet taken
  scanResults,        \* server: the scanResults map, scanId -> record
  handler,            \* server: the request handler that waits for scanQueue.add
  requests,           \* history: the requests answered, with their status code
  worker,             \* server: the callback of scanQueue.process
  directs,            \* server: the processScanDirectly calls that await crawl()
  client,             \* RAGCollectorClient.waitForBatchCompletion()
  nextId              \* the ids uuidv4() has given out

\* the API server with its job queue, and a client of it
apiVars == <<queueOn, waiting, scanResults, handler, requests, worker, directs,
             client, nextId>>

\* the ProxyManager of app.js
proxyVars == <<workingProxies, proxyFetch>>

\* the state outside the scanners and the scan server
serviceVars == <<proxyVars, quick, apiVars>>

\* the scanners and the scan server
scannerVars == <<variant, maxPages, maxDepth, minQualityScore, visited, queue,
                 siteMap, pageRelationships, pagesScanned, startUrl, baseDomain,
                 scanning, pc, cur, urlArg, attempts, skipped, events, failedUrls,
                 cancelled, fresh, runs, orphan, heap, scans, arg, ret>>

vars == <<scannerVars, serviceVars>>

----------------------------------------------------------------------------
(* Bounds of the model *)

MaxLinks == 2        \* links per fetched page
MaxRuns == 2         \* crawl() calls on one scanner instance
MaxPagesOpt == 2     \* largest maxPages a caller asks for
MaxDepthOpt == 1     \* largest maxDepth a caller asks for

----------------------------------------------------------------------------
(* Strings *)

Null == << >>

HttpScheme == <<"h","t","t","p",":","/","/">>
WwwPrefix == <<"w","w","w",".">>

UpperCase == <<"A","B","C","D","E","F","G","H","I","J","K","L","M","N","O","P","Q","R","S","T","U","V","W","X","Y","Z">>
LowerCase == <<"a","b","c","d","e","f","g","h","i","j","k","l","m","n","o","p","q","r","s","t","u","v","w","x","y","z">>

StartsWith(s, p) == Len(s) >= Len(p) /\ SubSeq(s, 1, Len(p)) = p

EndsWith(s, p) == Len(s) >= Len(p) /\ SubSeq(s, Len(s) - Len(p) + 1, Len(s)) = p

Includes(s, p) == \E i \in 1..(Len(s) - Len(p) + 1) : SubSeq(s, i, i + Len(p) - 1) = p

toLowerCase(s) ==
  [i \in 1..Len(s) |->
     IF \E k \in 1..Len(UpperCase) : UpperCase[k] = s[i]
     THEN LowerCase[CHOOSE k \in 1..Len(UpperCase) : UpperCase[k] = s[i]]
     ELSE s[i]]

\* index of the first character of s that is in cs, Len(s)+1 when there is none
IndexOfAny(s, cs) ==
  IF \E i \in 1..Len(s) : s[i] \in cs
  THEN CHOOSE i \in 1..Len(s) : s[i] \in cs /\ \A j \in 1..(i - 1) : s[j] \notin cs
  ELSE Len(s) + 1

----------------------------------------------------------------------------
(* new URL(url): absolute http URLs over lower/upper-case letters, ".",    *)
(* "/", "?", "#"; anything else does not parse                             *)

AfterScheme(url) == SubSeq(url, Len(HttpScheme) + 1, Len(url))

UrlHost(url) == SubSeq(AfterScheme(url), 1, IndexOfAny(AfterScheme(url), {"/", "?", "#"}) - 1)

UrlParses(url) == StartsWith(url, HttpScheme) /\ UrlHost(url) # << >>

\* everything after the host, without the fragment
UrlTail(url) ==
  LET rest == AfterScheme(url)
      t    == SubSeq(rest, Len(UrlHost(url)) + 1, Len(rest))
  IN  SubSeq(t, 1, IndexOfAny(t, {"#"}) - 1)

\* urlObj.hash = ''; urlObj.href : the serialisation has a path of at least "/"
HrefNoHash(url) ==
  LET t == UrlTail(url)
      p == SubSeq(t, 1, IndexOfAny(t, {"?"}) - 1)
      q == SubSeq(t, Len(p) + 1, Len(t))
  IN  HttpScheme \o toLowerCase(UrlHost(url)) \o (IF p = << >> THEN <<"/">> ELSE p) \o q

normalizeUrl(url) ==
  IF ~UrlParses(url) THEN Null
  ELSE LET normalized == HrefNoHash(url)
       IN  IF EndsWith(normalized, <<"/">>)
           THEN SubSeq(normalized, 1, Len(normalized) - 1)
           ELSE normalized

getBaseDomain(url) ==
  IF ~UrlParses(url) THEN << >>
  ELSE LET hostname == toLowerCase(UrlHost(url))
       IN  IF StartsWith(hostname, WwwPrefix)
           THEN SubSeq(hostname, Len(WwwPrefix) + 1, Len(hostname))
           ELSE hostname

----------------------------------------------------------------------------
(* The URLs the model draws from: the crawl() argument and the href values *)
(* found on fetched pages                                                  *)

U_root == <<"h","t","t","p",":","/","/","a",".","c","o">>
U_bSlashFrag == <<"h","t","t","p",":","/","/","a",".","c","o","/","b","/","#","x">>
U_wwwC == <<"h","t","t","p",":","/","/","w","w","w",".","a",".","c","o","/","c">>
U_other == <<"h","t","t","p",":","/","/","b",".","c","o">>
U_login == <<"h","t","t","p",":","/","/","a",".","c","o","/","L","o","g","i","n">>
U_noScheme == <<"a",".","c","o">>
U_otherSlashes == <<"h","t","t","p",":","/","/","b",".","c","o","/","/">>

\* values a caller passes to crawl(url) / types into #urlInput
StartArgs == {U_root, U_other, U_noScheme, U_otherSlashes}

\* whether new URL(url) accepts a crawl() argument
startParses == [url \in StartArgs |-> UrlParses(url)]

\* this.normalizeUrl(url) of every crawl() argument, computed once
normalizedArg == [url \in StartArgs |-> normalizeUrl(url)]

startDomain == [url \in StartArgs |-> getBaseDomain(normalizeUrl(url))]

\* absolute href values of the a[href] elements of a fetched page
Hrefs == {U_root, U_bSlashFrag, U_wwwC, U_other, U_login}

RECURSIVE SeqsUpTo(_, _)
SeqsUpTo(S, n) ==
  IF n = 0 THEN {<< >>}
  ELSE LET shorter == SeqsUpTo(S, n - 1)
       IN  shorter \cup {Append(q, x) : q \in {r \in shorter : Len(r) = n - 1}, x \in S}

\* quality scores a parsed page may get (sums of the scorer's increments)
Scores == {0, 30}

\* what the request for a page ends with: a document (the hrefs of its
\* a[href] elements and the score its content earns), or an error (network,
\* timeout, non-2xx status)
RequestError == [kind |-> "error", hrefs |-> << >>, score |-> 0]

Responses ==
  {RequestError} \cup [kind : {"ok"}, hrefs : SeqsUpTo(Hrefs, MaxLinks), score : Scores]

\* what `await this.fetchPage(url)` gives crawl(): the html, null, or an exception
NoHtml == [ok |-> FALSE, thrown |-> FALSE, hrefs |-> << >>, score |-> 0]

Thrown == [ok |-> FALSE, thrown |-> TRUE, hrefs |-> << >>, score |-> 0]

fetchPage_rethrows(response) ==
  IF response.kind = "ok"
  THEN [ok |-> TRUE, thrown |-> FALSE, hrefs |-> response.hrefs, score |-> response.score]
  ELSE Thrown

\* try { return response.data } catch (error) { return null }
fetchPage(response) ==
  IF response.kind = "ok"
  THEN [ok |-> TRUE, thrown |-> FALSE, hrefs |-> response.hrefs, score |-> response.score]
  ELSE NoHtml

----------------------------------------------------------------------------
(* Scope filter *)

skipExtensions ==
  { <<".","p","d","f">>, <<".","d","o","c">>, <<".","d","o","c","x">>,
    <<".","x","l","s">>, <<".","x","l","s","x">>, <<".","p","p","t">>,
    <<".","p","p","t","x">>, <<".","z","i","p">>, <<".","r","a","r">>,
    <<".","j","p","g">>, <<".","j","p","e","g">>, <<".","p","n","g">>,
    <<".","g","i","f">>, <<".","s","v","g">>, <<".","m","p","3">>,
    <<".","m","p","4">>, <<".","a","v","i">>, <<".","m","o","v">>,
    <<".","c","s","s">>, <<".","j","s">> }

skipPatterns ==
  { <<"/","l","o","g","i","n">>, <<"/","l","o","g","o","u","t">>,
    <<"/","s","i","g","n","i","n">>, <<"/","s","i","g","n","u","p">>,
    <<"/","r","e","g","i","s","t","e","r">>, <<"/","c","a","r","t">>,
    <<"/","c","h","e","c","k","o","u","t">>, <<"/","p","a","y","m","e","n","t">>,
    <<"/","a","c","c","o","u","n","t">>, <<"/","p","r","o","f","i","l","e">>,
    <<"/","a","d","m","i","n">>, <<"/","d","a","s","h","b","o","a","r","d">>,
    <<"/","s","e","t","t","i","n","g","s">>,
    <<"/","p","r","e","f","e","r","e","n","c","e","s">>,
    <<"/","s","e","a","r","c","h","?">>, <<"/","f","i","l","t","e","r","?">>,
    <<"?","s","o","r","t","=">>, <<"?","p","a","g","e","=">>,
    <<"/","d","o","w","n","l","o","a","d","/">>, <<"/","p","r","i","n","t","/">> }

\* scanner.js: skipExtensions.some(..) || skipPatterns.some(pattern =>
\* urlLower.includes(pattern))
serverSkipMatch(url) ==
  LET urlLower == toLowerCase(url)
  IN  \/ \E ext \in skipExtensions : Includes(urlLower, ext)
      \/ \E pattern \in skipPatterns : Includes(urlLower, pattern)

\* the browser scanner's list: the server's without .css and .js
browserSkipExtensions ==
  skipExtensions \ { <<".","c","s","s">>, <<".","j","s">> }

\* every normalised URL a page of the model can link to
LinkUrls == {normalizeUrl(h) : h \in Hrefs} \ {Null}

\* urlLower.includes(ext) for some ext / some pattern, per URL of the model
serverSkips == [u \in LinkUrls |-> serverSkipMatch(u)]

browserSkips ==
  [u \in LinkUrls |-> \E ext \in browserSkipExtensions : Includes(toLowerCase(u), ext)]

baseDomainOf == [u \in LinkUrls |-> getBaseDomain(u)]

isInternalLink(url) == baseDomainOf[url] = baseDomain

serverShouldCrawl(url) ==
  /\ url # Null /\ url \notin visited
  /\ isInternalLink(url)
  /\ ~serverSkips[url]

browserShouldCrawl(url) ==
  /\ url # Null /\ url \notin visited
  /\ isInternalLink(url)
  /\ ~browserSkips[url]

shouldCrawl(url) ==
  IF variant = "server" THEN serverShouldCrawl(url) ELSE browserShouldCrawl(url)

----------------------------------------------------------------------------
(* parseHtml: the links of a page, resolved and normalised, and its score *)

RECURSIVE extractLinks(_)
extractLinks(hrefs) ==
  IF hrefs = << >> THEN << >>
  ELSE LET normalized == normalizeUrl(Head(hrefs))
       IN  (IF normalized # Null THEN <<normalized>> ELSE << >>) \o extractLinks(Tail(hrefs))

\* an href new URL(href, currentUrl) throws on: a scheme without host
U_noHost == <<"h","t","t","p",":","/","/">>

\* the a[href] elements of the page /b of the site the server scans
SiteHrefsOfB == <<U_root, U_noHost, U_other>>

\* extractLinks over every href list of the model, computed once
linksOf ==
  [hrefs \in SeqsUpTo(Hrefs, MaxLinks) \cup {SiteHrefsOfB} |-> extractLinks(hrefs)]

parseHtml(html, currentUrl) ==
  [url |-> currentUrl, links |-> linksOf[html.hrefs],
   qualityScore |-> html.score, depth |-> 0, parent |-> Null]

----------------------------------------------------------------------------
(* Construction *)

DefaultMaxPages == 50
DefaultMaxDepth == 3
DefaultMinQualityScore == 30
DefaultDelay == 500

\* a field that is not given (undefined)
Undefined == -1

\* `value || fallback` on a number: 0 and undefined give the fallback
OrDefault(value, fallback) == IF value = 0 \/ value = Undefined THEN fallback ELSE value

NoEntry == [url |-> Null, depth |-> 0, parent |-> Null]

\* no earlier crawl() call is waiting
NoOrphan == [pc |-> "none", cur |-> NoEntry, cancelled |-> FALSE, late |-> FALSE]

EmptyMap == [u \in {} |-> Null]

\* minQualityScore values a caller of the server scanner passes
MinScoreOpts == {0, 50}

ServerConstructor(optMaxPages, optMaxDepth, optMinQualityScore) ==
  /\ maxPages = OrDefault(optMaxPages, DefaultMaxPages)
  /\ maxDepth = OrDefault(optMaxDepth, DefaultMaxDepth)
  /\ minQualityScore = OrDefault(optMinQualityScore, DefaultMinQualityScore)
  /\ scanning = FALSE

\* the browser scanner has no minQualityScore field and never reads one: the
\* variable holds the default threshold of a crawl session
BrowserConstructor ==
  /\ maxPages = DefaultMaxPages
  /\ maxDepth = DefaultMaxDepth
  /\ minQualityScore = DefaultMinQualityScore
  /\ scanning = FALSE

\* no method has been called on its own
NoCall == [fn |-> "none"]

\* the scans a client of the server starts
ScanIds == {"scan1", "scan2"}

\* the nested options object of a request body is not given
NoOptions == [maxPages |-> Undefined, maxDepth |-> Undefined, delay |-> Undefined,
              minQualityScore |-> Undefined]

NoRequest ==
  [url |-> Null, maxPages |-> Undefined, maxDepth |-> Undefined, delay |-> Undefined,
   minQualityScore |-> Undefined, options |-> NoOptions]

\* no POST /api/scan was made for this scan id yet; request and http are
\* history: the body of the request and the status code it was answered with
NoScan ==
  [status |-> "none", url |-> Null, scanner |-> 0, pc |-> "none", cur |-> NoEntry,
   request |-> NoRequest, http |-> 0]

\* no fetchWithFallback() call was made yet; cached, tried and last are
\* history: the proxy found in the cache, the strategies attempted so far and
\* the response of the latest attempt
NoProxy == "none"

NoResponse == [kind |-> "none", ok |-> FALSE, length |-> 0, marker |-> FALSE]

NoFallback ==
  [pc |-> "idle", domain |-> Null, i |-> 0, cached |-> NoProxy, tried |-> << >>,
   last |-> NoResponse, result |-> NoResponse, calls |-> 0]

\* quickScan() was not called yet; fetched is history: the URLs requested
NoQuickScan ==
  [pc |-> "idle", maxPages |-> 0, visited |-> {}, queue |-> << >>, results |-> << >>,
   url |-> 0, fetched |-> << >>]

\* the server is not started
NoHandler == [pc |-> "down", urls |-> << >>, k |-> 0, batchId |-> 0, scanId |-> 0]

\* the server listens, no request waits for scanQueue.add
Listening == [NoHandler EXCEPT !.pc = "idle"]

\* the worker has no job; scan says that the lookup at the start of the job
\* has found the record
NoWorker == [pc |-> "idle", scanId |-> 0, url |-> Null, scan |-> FALSE]

\* waitForBatchCompletion() was not called
NoClient == [pc |-> "none", batchId |-> 0, results |-> 0]

\* the fields every constructor sets, and the history variables
Constructed ==
  /\ visited = {}
  /\ queue = << >>
  /\ siteMap = EmptyMap
  /\ pageRelationships = EmptyMap
  /\ pagesScanned = 0
  /\ startUrl = Null
  /\ baseDomain = Null
  /\ pc = "idle"
  /\ cur = NoEntry
  /\ urlArg = Null
  /\ attempts = << >>
  /\ skipped = {}
  /\ events = << >>
  /\ failedUrls = {}
  /\ cancelled = FALSE
  /\ fresh = FALSE
  /\ runs = 0
  /\ orphan = NoOrphan
  /\ heap = << >>
  /\ scans = [id \in ScanIds |-> NoScan]
  /\ arg = NoCall
  /\ ret = NoCall
  /\ workingProxies = EmptyMap
  /\ proxyFetch = NoFallback
  /\ quick = NoQuickScan
  /\ queueOn = FALSE
  /\ waiting = << >>
  /\ scanResults = EmptyMap
  /\ handler = NoHandler
  /\ requests = << >>
  /\ worker = NoWorker
  /\ directs = {}
  /\ client = NoClient
  /\ nextId = 0

\* a maxPages option far above the number of pages of a site of the model
ScenarioMaxPages == 10

\* new WebsiteScanner(options) of scanner.js
Init ==
  /\ variant = "server"
  /\ \E mp \in 0..MaxPagesOpt \cup {ScenarioMaxPages}, md \in 0..MaxDepthOpt,
        mq \in MinScoreOpts :
       ServerConstructor(mp, md, mq)
  /\ Constructed

\* let scanner = new WebsiteScanner() of app.js
BrowserInit ==
  /\ variant = "browser"
  /\ BrowserConstructor
  /\ Constructed

----------------------------------------------------------------------------
(* crawl(): everything before the loop *)

StartEntry(url) == [url |-> url, depth |-> 0, parent |-> Null]

\* this.queue = [{ url: this.startUrl, depth: 0, parent: null }]
ServerInitialQueue(q, url) == <<StartEntry(url)>>

\* this.queue.push({ url: this.startUrl, depth: 0, parent: null })
BrowserInitialQueue(q, url) == Append(q, StartEntry(url))

StartRejected_never(url) == FALSE

\* if (!this.startUrl)
StartRejected(url) == url = Null

CrawlIdle == pc \in {"idle", "done", "failed"} /\ runs < MaxRuns

ResetHistory(url) ==
  /\ urlArg' = url
  /\ attempts' = << >>
  /\ skipped' = {}
  /\ events' = << >>
  /\ failedUrls' = {}
  /\ cancelled' = FALSE
  /\ runs' = runs + 1
  /\ cur' = NoEntry

ServerCrawl(url) ==
  /\ variant = "server"
  /\ CrawlIdle
  /\ visited' = {}
  /\ siteMap' = EmptyMap
  /\ pageRelationships' = EmptyMap
  /\ pagesScanned' = 0
  /\ startUrl' = normalizedArg[url]
  /\ IF StartRejected(startUrl')
     THEN /\ pc' = "failed"
          /\ fresh' = FALSE
          /\ UNCHANGED <<baseDomain, queue>>
     ELSE /\ baseDomain' = startDomain[url]
          /\ queue' = ServerInitialQueue(queue, startUrl')
          /\ pc' = "loop"
          /\ fresh' = TRUE
  /\ ResetHistory(url)
  /\ UNCHANGED <<serviceVars, arg, ret, heap, scans, orphan, variant, maxPages, maxDepth, minQualityScore, scanning>>

BrowserCrawl(url, inputMaxPages, inputMaxDepth) ==
  /\ variant = "browser"
  /\ CrawlIdle
  /\ scanning' = TRUE
  /\ visited' = {}
  /\ siteMap' = EmptyMap
  /\ pageRelationships' = EmptyMap
  /\ pagesScanned' = 0
  /\ startUrl' = normalizedArg[url]
  /\ IF StartRejected(startUrl')
     THEN /\ pc' = "failed"
          /\ fresh' = FALSE
          /\ UNCHANGED <<baseDomain, maxPages, maxDepth, queue>>
     ELSE /\ baseDomain' = startDomain[url]
          /\ maxPages' = inputMaxPages
          /\ maxDepth' = inputMaxDepth
          /\ queue' = BrowserInitialQueue(queue, startUrl')
          /\ pc' = "loop"
          /\ fresh' = TRUE
  /\ ResetHistory(url)
  /\ UNCHANGED <<serviceVars, arg, ret, heap, scans, orphan, variant, minQualityScore>>

----------------------------------------------------------------------------
(* crawl(): the loop *)

ServerLoopCond_stopsEarly == Len(queue) > 0 /\ pagesScanned + 1 < maxPages

ServerLoopCond_onePageMore == Len(queue) > 0 /\ pagesScanned <= maxPages

ServerLoopCond == Len(queue) > 0 /\ pagesScanned < maxPages

BrowserLoopCond == Len(queue) > 0 /\ scanning /\ pagesScanned < maxPages

LoopCond == IF variant = "server" THEN ServerLoopCond ELSE BrowserLoopCond

SkipEntry_revisits(entry) == entry.depth > maxDepth

SkipEntry_anyDepth(entry) == entry.url \in visited

SkipEntry_oneDeeper(entry) == entry.url \in visited \/ entry.depth > maxDepth + 1

\* if (this.visited.has(currentUrl) || depth > this.options.maxDepth) continue
SkipEntry(entry) == entry.url \in visited \/ entry.depth > maxDepth

\* the while condition is false: the server returns its result, the browser
\* calls finishScanning()
LoopExit ==
  /\ pc = "loop"
  /\ ~LoopCond
  /\ pc' = "done"
  /\ scanning' = IF variant = "browser" THEN FALSE ELSE scanning
  /\ fresh' = FALSE
  /\ UNCHANGED <<serviceVars, arg, ret, heap, scans, orphan, variant, maxPages, maxDepth, minQualityScore, visited, queue,
                 siteMap, pageRelationships, pagesScanned, startUrl, baseDomain,
                 cur, urlArg, attempts, skipped, events, failedUrls, cancelled, runs>>

LoopSkip ==
  /\ pc = "loop"
  /\ LoopCond
  /\ SkipEntry(Head(queue))
  /\ queue' = Tail(queue)
  /\ skipped' = skipped \cup {Head(queue)}
  /\ fresh' = FALSE
  /\ UNCHANGED <<serviceVars, arg, ret, heap, scans, orphan, variant, maxPages, maxDepth, minQualityScore, visited, siteMap,
                 pageRelationships, pagesScanned, startUrl, baseDomain, scanning,
                 pc, cur, urlArg, attempts, events, failedUrls, cancelled, runs>>

\* this.pageRelationships.get(parent).push(currentUrl), when parent is set
TrackRelationship(rel, entry) ==
  IF entry.parent = Null THEN rel
  ELSE IF entry.parent \in DOMAIN rel
       THEN [rel EXCEPT ![entry.parent] = Append(@, entry.url)]
       ELSE (entry.parent :> <<entry.url>>) @@ rel

emitProgress_beforeCount(evts, scanned) == Append(evts, scanned - 1)

\* this.emit('progress', { .., pagesScanned: this.pagesScanned, .. }), after
\* this.pagesScanned++
emitProgress(evts, scanned) == Append(evts, scanned)

\* mark visited, count, report progress, start the fetch
LoopVisit ==
  /\ pc = "loop"
  /\ LoopCond
  /\ ~SkipEntry(Head(queue))
  /\ LET entry == Head(queue)
     IN  /\ queue' = Tail(queue)
         /\ visited' = visited \cup {entry.url}
         /\ pagesScanned' = pagesScanned + 1
         /\ pageRelationships' = TrackRelationship(pageRelationships, entry)
         /\ events' = emitProgress(events, pagesScanned + 1)
         /\ attempts' = Append(attempts, entry)
         /\ cur' = entry
  /\ pc' = "fetching"
  /\ fresh' = FALSE
  /\ UNCHANGED <<serviceVars, arg, ret, heap, scans, orphan, variant, maxPages, maxDepth, minQualityScore, siteMap, startUrl,
                 baseDomain, scanning, urlArg, skipped, failedUrls, cancelled, runs>>

\* if (html)
HtmlOk(html) == html.ok

ServerRetains_everyPage(pageData) == TRUE

\* scanner.js: if (pageData.qualityScore >= this.options.minQualityScore)
ServerRetains(pageData) == pageData.qualityScore >= minQualityScore

\* app.js: this.siteMap.set(url, pageData), whatever the score
BrowserRetains(pageData) == TRUE

Retains(pageData) ==
  IF variant = "server" THEN ServerRetains(pageData) ELSE BrowserRetains(pageData)

ChildEntry_sameDepth(link, depth, currentUrl) ==
  [url |-> link, depth |-> depth, parent |-> currentUrl]

\* { url: link, depth: depth + 1, parent: currentUrl }
ChildEntry(link, depth, currentUrl) ==
  [url |-> link, depth |-> depth + 1, parent |-> currentUrl]

\* for (const link of pageData.links) if (this.shouldCrawl(link)) this.queue.push(..)
RECURSIVE Enqueue(_, _, _, _)
Enqueue(q, links, depth, currentUrl) ==
  IF links = << >> THEN q
  ELSE Enqueue(IF shouldCrawl(Head(links))
               THEN Append(q, ChildEntry(Head(links), depth, currentUrl))
               ELSE q,
               Tail(links), depth, currentUrl)

\* the record kept in siteMap (its content fields and links are left out)
PageRecord(pageData, entry) ==
  [url |-> pageData.url, qualityScore |-> pageData.qualityScore,
   depth |-> entry.depth, parent |-> entry.parent]

AfterPage_noDelayOnFailure(html) == IF HtmlOk(html) THEN "delay" ELSE "loop"

\* the statement after the if (html) block: await this.delay(..), whatever
\* html was
AfterPage(html) == "delay"

\* await this.fetchPage(currentUrl) resolves, and the page is processed; an
\* exception would leave crawl(), which catches nothing
FetchReturn(response) ==
  /\ pc = "fetching"
  /\ failedUrls' = IF response.kind = "ok" THEN failedUrls ELSE failedUrls \cup {cur.url}
  /\ LET html == fetchPage(response)
     IN  IF html.thrown
         THEN /\ pc' = "failed"
              /\ UNCHANGED <<siteMap, queue>>
         ELSE /\ pc' = AfterPage(html)
              /\ IF HtmlOk(html)
                 THEN LET pageData == parseHtml(html, cur.url)
                      IN  /\ siteMap' = IF Retains(pageData)
                                        THEN (cur.url :> PageRecord(pageData, cur)) @@ siteMap
                                        ELSE siteMap
                          /\ queue' = Enqueue(queue, pageData.links, cur.depth, cur.url)
                 ELSE UNCHANGED <<siteMap, queue>>
  /\ UNCHANGED <<serviceVars, arg, ret, heap, scans, orphan, variant, maxPages, maxDepth, minQualityScore, visited,
                 pageRelationships, pagesScanned, startUrl, baseDomain, scanning,
                 cur, urlArg, attempts, skipped, events, cancelled, fresh, runs>>

\* await this.delay(this.options.delay) resolves
DelayDone ==
  /\ pc = "delay"
  /\ pc' = "loop"
  /\ cur' = NoEntry
  /\ UNCHANGED <<serviceVars, arg, ret, heap, scans, orphan, variant, maxPages, maxDepth, minQualityScore, visited, queue,
                 siteMap, pageRelationships, pagesScanned, startUrl, baseDomain,
                 scanning, urlArg, attempts, skipped, events, failedUrls,
                 cancelled, fresh, runs>>

\* the Stop button (shown while a scan runs): scanner.scanning = false; a
\* click is handled while crawl() waits for the fetch or for the delay
StopScan ==
  /\ variant = "browser"
  /\ pc \in {"fetching", "delay"}
  /\ scanning
  /\ scanning' = FALSE
  /\ cancelled' = TRUE
  /\ UNCHANGED <<serviceVars, arg, ret, heap, scans, orphan, variant, maxPages, maxDepth, minQualityScore, visited, queue,
                 siteMap, pageRelationships, pagesScanned, startUrl, baseDomain,
                 pc, cur, urlArg, attempts, skipped, events, failedUrls, fresh,
                 runs>>

Fetched == \E response \in Responses : FetchReturn(response)

\* one step of the crawl() coroutine
CrawlStep ==
  \/ LoopExit
  \/ LoopSkip
  \/ LoopVisit
  \/ Fetched
  \/ DelayDone

\* the server scanner: crawl(url) calls on one instance, one after the other
Next ==
  \/ \E url \in StartArgs : ServerCrawl(url)
  \/ CrawlStep

Spec == Init /\ [][Next]_vars

\* every await of crawl() resolves (axios has a timeout, the delay is a timer)
\* and the synchronous code between two awaits runs to the next await
SpecLive == Spec /\ WF_vars(CrawlStep)

\* the browser scanner: the Scan and Stop buttons; a scan is started once the
\* loop of the previous one has ended
BrowserNext ==
  \/ \E url \in StartArgs, mp \in 1..MaxPagesOpt, md \in 1..MaxDepthOpt :
       BrowserCrawl(url, mp, md)
  \/ CrawlStep
  \/ StopScan

SpecBrowser == BrowserInit /\ [][BrowserNext]_vars

----------------------------------------------------------------------------
(* The browser scanner when Scan is pressed while an earlier crawl() call   *)
(* has not returned: stopScan() calls finishScanning(), which enables the   *)
(* Scan button, while the stopped call still waits for its fetch or delay   *)

\* scanButton.disabled is set in crawl() after the URL check and cleared by
\* finishScanning()
ScanButtonEnabled == ~scanning \/ pc \in {"idle", "failed"}

\* startScan() -> scanner.crawl() on the global scanner, whose earlier call
\* keeps its position and its loop variables
BrowserRestart(url, inputMaxPages, inputMaxDepth) ==
  /\ variant = "browser"
  /\ ScanButtonEnabled
  /\ pc \in {"fetching", "delay"}
  /\ orphan.pc = "none"
  /\ runs < MaxRuns
  /\ orphan' = [pc |-> pc, cur |-> cur, cancelled |-> cancelled, late |-> FALSE]
  /\ scanning' = TRUE
  /\ visited' = {}
  /\ siteMap' = EmptyMap
  /\ pageRelationships' = EmptyMap
  /\ pagesScanned' = 0
  /\ startUrl' = normalizedArg[url]
  /\ IF StartRejected(startUrl')
     THEN /\ pc' = "failed"
          /\ fresh' = FALSE
          /\ UNCHANGED <<baseDomain, maxPages, maxDepth, queue>>
     ELSE /\ baseDomain' = startDomain[url]
          /\ maxPages' = inputMaxPages
          /\ maxDepth' = inputMaxDepth
          /\ queue' = BrowserInitialQueue(queue, startUrl')
          /\ pc' = "loop"
          /\ fresh' = TRUE
  /\ ResetHistory(url)
  /\ UNCHANGED <<serviceVars, variant, minQualityScore, heap, scans, arg, ret>>

\* the earlier call's fetch resolves and it processes the page, on the fields
\* the later call has reset
OrphanFetchReturn(response) ==
  /\ orphan.pc = "fetching"
  /\ pc # "loop"
  /\ LET html == fetchPage(response)
     IN  IF html.thrown
         THEN /\ orphan' = NoOrphan
              /\ UNCHANGED <<siteMap, queue>>
         ELSE /\ orphan' = [orphan EXCEPT !.pc = "delay"]
              /\ IF HtmlOk(html)
                 THEN LET pageData == parseHtml(html, orphan.cur.url)
                      IN  /\ siteMap' = IF Retains(pageData)
                                        THEN (orphan.cur.url :> PageRecord(pageData, orphan.cur)) @@ siteMap
                                        ELSE siteMap
                          /\ queue' = Enqueue(queue, pageData.links, orphan.cur.depth, orphan.cur.url)
                 ELSE UNCHANGED <<siteMap, queue>>
  /\ UNCHANGED <<serviceVars, variant, maxPages, maxDepth, minQualityScore, visited,
                 pageRelationships, pagesScanned, startUrl, baseDomain, scanning,
                 pc, cur, urlArg, attempts, skipped, events, failedUrls, cancelled,
                 fresh, runs, heap, scans, arg, ret>>

\* the iterations that end in `continue`: the frontier without its leading
\* entries that are visited or too deep, as long as the loop goes on
RECURSIVE DropSkipped(_)
DropSkipped(q) ==
  IF Len(q) > 0 /\ scanning /\ pagesScanned < maxPages /\ SkipEntry(Head(q))
  THEN DropSkipped(Tail(q))
  ELSE q

\* the earlier call's delay resolves: it tests the while condition and runs
\* to its next fetch, or leaves the loop and calls finishScanning()
OrphanDelayDone ==
  /\ orphan.pc = "delay"
  /\ pc # "loop"
  /\ LET q == DropSkipped(queue)
     IN  IF Len(q) > 0 /\ scanning /\ pagesScanned < maxPages
         THEN /\ queue' = Tail(q)
              /\ visited' = visited \cup {Head(q).url}
              /\ pagesScanned' = pagesScanned + 1
              /\ pageRelationships' = TrackRelationship(pageRelationships, Head(q))
              /\ orphan' = [orphan EXCEPT !.pc = "fetching", !.cur = Head(q), !.late = TRUE]
              /\ UNCHANGED scanning
         ELSE /\ queue' = q
              /\ scanning' = FALSE
              /\ orphan' = NoOrphan
              /\ UNCHANGED <<visited, pagesScanned, pageRelationships>>
  /\ UNCHANGED <<serviceVars, variant, maxPages, maxDepth, minQualityScore, siteMap, startUrl,
                 baseDomain, pc, cur, urlArg, attempts, skipped, events, failedUrls,
                 cancelled, fresh, runs, heap, scans, arg, ret>>

\* the documents served in this scenario: a page linking to at most one
\* same-site page
StopStartResponses ==
  {RequestError} \cup [kind : {"ok"}, hrefs : SeqsUpTo({U_root, U_bSlashFrag}, 1), score : {30}]

StopStartFetched == \E response \in StopStartResponses : FetchReturn(response)

OrphanFetched == \E response \in StopStartResponses : OrphanFetchReturn(response)

\* the first Scan, then Stop and Scan again while the first call waits
StopStartNext ==
  \/ \E url \in StartArgs, mp \in 1..MaxPagesOpt, md \in 1..MaxDepthOpt :
       pc = "idle" /\ BrowserCrawl(url, mp, md)
  \/ \E url \in StartArgs, mp \in 1..MaxPagesOpt, md \in 1..MaxDepthOpt :
       BrowserRestart(url, mp, md)
  \/ LoopExit
  \/ LoopSkip
  \/ LoopVisit
  \/ StopStartFetched
  \/ DelayDone
  \/ StopScan
  \/ OrphanFetched
  \/ OrphanDelayDone

SpecStopStart == BrowserInit /\ [][StopStartNext]_vars

----------------------------------------------------------------------------
(* The API server: POST /api/scan starts processScanDirectly, which creates *)
(* a WebsiteScanner and awaits its crawl(); scans of several requests are   *)
(* in progress at once, interleaved at the awaits of crawl()                *)

\* the site the scans of this scenario crawl: what the request for each URL
\* ends with
Site ==
  [u \in LinkUrls \cup {normalizedArg[url] : url \in StartArgs} |->
     IF u = normalizeUrl(U_root)
     THEN [kind |-> "ok", hrefs |-> <<U_bSlashFrag, U_wwwC>>, score |-> 30]
     ELSE IF u = normalizeUrl(U_bSlashFrag)
     THEN [kind |-> "ok", hrefs |-> SiteHrefsOfB, score |-> 0]
     ELSE IF u = normalizeUrl(U_wwwC)
     THEN [kind |-> "ok", hrefs |-> <<U_login, U_bSlashFrag>>, score |-> 30]
     ELSE IF u \in {normalizeUrl(U_other), normalizeUrl(U_otherSlashes)}
     THEN [kind |-> "ok", hrefs |-> <<U_root>>, score |-> 30]
     ELSE RequestError]

\* request bodies with the option fields at the top level, where the handler
\* reads them
FlatRequests ==
  [url : StartArgs, maxPages : 1..MaxPagesOpt, maxDepth : 1..MaxDepthOpt,
   delay : {Undefined}, minQualityScore : MinScoreOpts, options : {NoOptions}]

\* option objects as docs/api.md and the client library send them, nested
\* under "options": one within the documented ranges, the others with one
\* value outside its range
DocumentedOptions ==
  { [maxPages |-> 1, maxDepth |-> 1, delay |-> 500, minQualityScore |-> 0],
    [maxPages |-> 0, maxDepth |-> 1, delay |-> 500, minQualityScore |-> 0],
    [maxPages |-> 501, maxDepth |-> 1, delay |-> 500, minQualityScore |-> 0],
    [maxPages |-> 1, maxDepth |-> 11, delay |-> 500, minQualityScore |-> 0],
    [maxPages |-> 1, maxDepth |-> 1, delay |-> 50, minQualityScore |-> 0],
    [maxPages |-> 1, maxDepth |-> 1, delay |-> 5001, minQualityScore |-> 0] }

DocumentedRequests ==
  [url : {U_root}, maxPages : {Undefined}, maxDepth : {Undefined}, delay : {Undefined},
   minQualityScore : {Undefined}, options : DocumentedOptions]

\* the bodies of the POST /api/scan requests: the two forms, a body with
\* every top-level value outside its range, and a body without url
ScanRequests ==
  FlatRequests \cup DocumentedRequests
  \cup { [NoRequest EXCEPT !.url = U_root, !.maxPages = 501, !.maxDepth = 11, !.delay = 50],
         [NoRequest EXCEPT !.maxPages = 1] }

\* const { url, maxPages, maxDepth, crawlDelay, delay, .., ...otherOptions } =
\* req.body, then scanOptions: each value is read at the top level of the
\* body with `|| default`; the nested options object is copied into
\* otherOptions.options and never read (crawlDelay is not sent)
scanOptionsOf(body) ==
  [maxPages |-> OrDefault(body.maxPages, DefaultMaxPages),
   maxDepth |-> OrDefault(body.maxDepth, DefaultMaxDepth),
   delay |-> OrDefault(body.delay, DefaultDelay),
   minQualityScore |-> OrDefault(body.minQualityScore, DefaultMinQualityScore)]

\* the options processScanDirectly is called with
ScanOptions == {scanOptionsOf(body) : body \in ScanRequests}

\* the fields the constructor gives a WebsiteScanner object
WebsiteScanner(options) ==
  [options |-> [maxPages |-> OrDefault(options.maxPages, DefaultMaxPages),
                maxDepth |-> OrDefault(options.maxDepth, DefaultMaxDepth),
                delay |-> OrDefault(options.delay, DefaultDelay),
                minQualityScore |-> OrDefault(options.minQualityScore, DefaultMinQualityScore)],
   visited |-> {}, queue |-> << >>, siteMap |-> EmptyMap, pagesScanned |-> 0,
   startUrl |-> Null, baseDomain |-> Null]

NewScanner_moduleSingleton(h, options) ==
  IF h = << >> THEN <<WebsiteScanner(options)>>
  ELSE [h EXCEPT ![1].options = WebsiteScanner(options).options]

\* const scanner = new WebsiteScanner(options): the heap with one more object;
\* the new object is the last one
NewScanner(h, options) == Append(h, WebsiteScanner(options))

\* crawl() on scanner object sc, up to the loop; startUrl is Null when the
\* call throws
ScannerCrawl(sc, url) ==
  LET start == normalizedArg[url]
      reset == [sc EXCEPT !.visited = {}, !.siteMap = EmptyMap, !.pagesScanned = 0,
                          !.startUrl = start]
  IN  IF StartRejected(start) THEN reset
      ELSE [reset EXCEPT !.baseDomain = startDomain[url],
                         !.queue = ServerInitialQueue(sc.queue, start)]

\* this.shouldCrawl(link) on scanner object sc
ScannerShouldCrawl(sc, url) ==
  /\ url # Null /\ url \notin sc.visited
  /\ baseDomainOf[url] = sc.baseDomain
  /\ ~serverSkips[url]

RECURSIVE ScannerEnqueue(_, _, _, _)
ScannerEnqueue(sc, links, depth, currentUrl) ==
  IF links = << >> THEN sc
  ELSE ScannerEnqueue(IF ScannerShouldCrawl(sc, Head(links))
                      THEN [sc EXCEPT !.queue = Append(@, ChildEntry(Head(links), depth, currentUrl))]
                      ELSE sc,
                      Tail(links), depth, currentUrl)

\* the loop of crawl() on scanner object sc, from the while condition to the
\* next await this.fetchPage(currentUrl) or to the return
RECURSIVE ScannerLoop(_)
ScannerLoop(sc) ==
  IF Len(sc.queue) > 0 /\ sc.pagesScanned < sc.options.maxPages
  THEN LET entry == Head(sc.queue)
       IN  IF entry.url \in sc.visited \/ entry.depth > sc.options.maxDepth
           THEN ScannerLoop([sc EXCEPT !.queue = Tail(@)])
           ELSE [scanner |-> [sc EXCEPT !.queue = Tail(@),
                                        !.visited = @ \cup {entry.url},
                                        !.pagesScanned = @ + 1],
                 pc |-> "fetching", cur |-> entry]
  ELSE [scanner |-> sc, pc |-> "done", cur |-> NoEntry]

\* crawl() on scanner object sc after fetchPage has resolved: the page is
\* parsed, stored when it scores enough, and its links are enqueued
ScannerPage(sc, entry, response) ==
  LET html == fetchPage(response)
  IN  IF ~HtmlOk(html) THEN sc
      ELSE LET pageData == parseHtml(html, entry.url)
               kept == IF pageData.qualityScore >= sc.options.minQualityScore
                       THEN [sc EXCEPT !.siteMap = (entry.url :> PageRecord(pageData, entry)) @@ @]
                       ELSE sc
           IN  ScannerEnqueue(kept, pageData.links, entry.depth, entry.url)

parseHtmlThrows_onBadHref(html) ==
  \E i \in DOMAIN html.hrefs : normalizeUrl(html.hrefs[i]) = Null

\* whether an exception leaves parseHtml: new URL(href, currentUrl) throws
\* on an href that does not resolve, inside try { .. } catch {} around the
\* one link, and JSON.parse of extractSchemaData is caught the same way
parseHtmlThrows(html) == FALSE

\* POST /api/scan without a job queue: a body without url is answered 400;
\* otherwise the scan is recorded, processScanDirectly runs to the first
\* await of crawl(), and the request is answered 200
PostScan(id, body) ==
  /\ scans[id].http = 0
  /\ IF body.url = Null
     THEN /\ scans' = [scans EXCEPT ![id].request = body, ![id].http = 400]
          /\ UNCHANGED heap
     ELSE LET url     == body.url
              options == scanOptionsOf(body)
              h       == NewScanner(heap, options)
              ref     == Len(h)
              sc      == ScannerCrawl(h[ref], url)
          IN  IF sc.startUrl = Null
              THEN /\ heap' = [h EXCEPT ![ref] = sc]
                   /\ scans' = [scans EXCEPT ![id] =
                                  [status |-> "failed", url |-> url, scanner |-> ref,
                                   pc |-> "failed", cur |-> NoEntry,
                                   request |-> body, http |-> 200]]
              ELSE LET at == ScannerLoop(sc)
                   IN  /\ heap' = [h EXCEPT ![ref] = at.scanner]
                       /\ scans' = [scans EXCEPT ![id] =
                                      [status |-> "processing", url |-> url, scanner |-> ref,
                                       pc |-> at.pc, cur |-> at.cur,
                                       request |-> body, http |-> 200]]
  /\ UNCHANGED <<serviceVars, variant, maxPages, maxDepth, minQualityScore, visited, queue,
                 siteMap, pageRelationships, pagesScanned, startUrl, baseDomain,
                 scanning, pc, cur, urlArg, attempts, skipped, events, failedUrls,
                 cancelled, fresh, runs, orphan, arg, ret>>

\* the fetch of a scan resolves; its crawl() processes the page and waits
\* for the delay; an exception would leave crawl(), and the catch of
\* processScanDirectly would mark the scan failed
ScanFetchReturn(id) ==
  /\ scans[id].pc = "fetching"
  /\ LET ref      == scans[id].scanner
         response == Site[scans[id].cur.url]
     IN  IF response.kind = "ok" /\ parseHtmlThrows(fetchPage(response))
         THEN /\ scans' = [scans EXCEPT ![id].pc = "failed", ![id].status = "failed"]
              /\ UNCHANGED heap
         ELSE /\ heap' = [heap EXCEPT ![ref] = ScannerPage(heap[ref], scans[id].cur, response)]
              /\ scans' = [scans EXCEPT ![id].pc = "delay"]
  /\ UNCHANGED <<serviceVars, variant, maxPages, maxDepth, minQualityScore, visited, queue,
                 siteMap, pageRelationships, pagesScanned, startUrl, baseDomain,
                 scanning, pc, cur, urlArg, attempts, skipped, events, failedUrls,
                 cancelled, fresh, runs, orphan, arg, ret>>

\* the delay of a scan resolves; its crawl() goes on to the next fetch, or
\* returns and processScanDirectly marks the scan completed
ScanDelayDone(id) ==
  /\ scans[id].pc = "delay"
  /\ LET ref == scans[id].scanner
         at  == ScannerLoop(heap[ref])
     IN  /\ heap' = [heap EXCEPT ![ref] = at.scanner]
         /\ scans' = [scans EXCEPT ![id].pc = at.pc, ![id].cur = at.cur,
                                   ![id].status = IF at.pc = "done" THEN "completed" ELSE @]
  /\ UNCHANGED <<serviceVars, variant, maxPages, maxDepth, minQualityScore, visited, queue,
                 siteMap, pageRelationships, pagesScanned, startUrl, baseDomain,
                 scanning, pc, cur, urlArg, attempts, skipped, events, failedUrls,
                 cancelled, fresh, runs, orphan, arg, ret>>

\* the server holds no scanner before the first request
ServerInit ==
  /\ variant = "server"
  /\ ServerConstructor(0, 0, 0)
  /\ Constructed

ServerNext ==
  \/ \E id \in ScanIds, body \in ScanRequests : PostScan(id, body)
  \/ \E id \in ScanIds : ScanFetchReturn(id)
  \/ \E id \in ScanIds : ScanDelayDone(id)

SpecServer == ServerInit /\ [][ServerNext]_vars

\* a scan that runs alone: crawl() on a scanner object of its own, every
\* await resolving before anything else happens
RECURSIVE CrawlAlone(_)
CrawlAlone(at) ==
  IF at.pc = "done" THEN at.scanner
  ELSE CrawlAlone(ScannerLoop(ScannerPage(at.scanner, at.cur, Site[at.cur.url])))

ScanAlone(url, options) ==
  LET sc == ScannerCrawl(WebsiteScanner(options), url)
  IN  IF sc.startUrl = Null THEN sc ELSE CrawlAlone(ScannerLoop(sc))

\* the scanner a scan ends with when it runs alone, per url and options
aloneResult == [url \in StartArgs, options \in ScanOptions |-> ScanAlone(url, options)]

----------------------------------------------------------------------------
(* The methods that compute a value from their inputs, called on their own: *)
(* a behaviour is one call, since no call depends on an earlier one         *)

\* app.js, the scanner with proxy fallback: its skipPatterns
proxySkipPatterns ==
  { <<"/","l","o","g","i","n">>, <<"/","l","o","g","o","u","t">>,
    <<"/","s","i","g","n","i","n">>, <<"/","s","i","g","n","u","p">>,
    <<"/","r","e","g","i","s","t","e","r">>, <<"/","c","a","r","t">>,
    <<"/","c","h","e","c","k","o","u","t">>, <<"/","p","a","y","m","e","n","t">>,
    <<"/","u","s","e","r","/","a","c","c","o","u","n","t">>,
    <<"/","u","s","e","r","/","p","r","o","f","i","l","e">>,
    <<"/","m","y","-","a","c","c","o","u","n","t">>,
    <<"/","m","y","p","r","o","f","i","l","e">>, <<"/","w","p","-","a","d","m","i","n">>,
    <<"/","a","d","m","i","n","/">>,
    <<"/","a","d","m","i","n","i","s","t","r","a","t","o","r","/">>,
    <<"?","s","e","a","r","c","h","=">>, <<"?","f","i","l","t","e","r","=">>,
    <<"?","s","o","r","t","=">>, <<"?","p","a","g","e","=">>,
    <<"/","d","o","w","n","l","o","a","d",".","p","h","p">>,
    <<"/","p","r","i","n","t",".","p","h","p">> }

\* app.js, the scanner with proxy fallback: a pattern counts when the URL ends
\* with it or holds it followed by "/" or "?"
proxySkipMatch(url) ==
  LET urlLower == toLowerCase(url)
  IN  \/ \E ext \in skipExtensions : Includes(urlLower, ext)
      \/ \E pattern \in proxySkipPatterns :
            /\ Includes(urlLower, pattern)
            /\ \/ EndsWith(urlLower, pattern)
               \/ Includes(urlLower, pattern \o <<"/">>)
               \/ Includes(urlLower, pattern \o <<"?">>)

\* shouldCrawl(url) of an implementation, on a scanner whose visited set and
\* baseDomain are given
shouldCrawlOf(impl, visitedUrls, domain, url) ==
  /\ url # Null /\ url \notin visitedUrls
  /\ getBaseDomain(url) = domain
  /\ IF impl = "server" THEN ~serverSkipMatch(url) ELSE ~proxySkipMatch(url)

\* the implementations of shouldCrawl with a skip-path list
Impls == {"server", "proxyBrowser"}

\* hosts and paths of the links a page holds
LinkHosts == { <<"a",".","c","o">>, <<"w","w","w",".","a",".","c","o">>, <<"b",".","c","o">> }

LinkPaths ==
  { <<>>, <<"/","a","b","o","u","t">>, <<"/","l","o","g","i","n">>,
    <<"/","L","o","g","i","n">>, <<"/","l","o","g","i","n","p","a","g","e">>,
    <<"/","a","d","m","i","n">>, <<"/","a","d","m","i","n","/","u","s","e","r","s">>,
    <<"/","a","d","m","i","n","i","s","t","r","a","t","o","r">>,
    <<"/","a","d","m","i","n","i","s","t","r","a","t","o","r","/","x">>,
    <<"/","b","l","o","g","/","l","o","g","i","n">>,
    <<"/","l","o","g","i","n","/","h","e","l","p">>, <<"/","c","a","r","t">>,
    <<"/","c","a","r","t","o","o","n">>, <<"/","a","c","c","o","u","n","t","i","n","g">>,
    <<"/","a",".","p","d","f">>, <<"/","n","e","w","s","?","p","a","g","e","=","2">>,
    <<"/","c","h","e","c","k","o","u","t","?","x">>, <<"/","s","e","t","t","i","n","g","s">>,
    <<"/","m","y","-","s","e","t","t","i","n","g","s">> }

\* the links as the crawl loop passes them to shouldCrawl: normalised
CandidateUrls == {normalizeUrl(HttpScheme \o h \o q) : h \in LinkHosts, q \in LinkPaths}

\* this.shouldCrawl(link) on a scanner that crawls a.co and has visited the
\* start page, or nothing yet
CallShouldCrawl(impl, url, startVisited) ==
  LET start == normalizeUrl(U_root)
      visitedUrls == IF startVisited THEN {start} ELSE {}
  IN  /\ arg = NoCall
      /\ arg' = [fn |-> "shouldCrawl", impl |-> impl, url |-> url,
                  visited |-> visitedUrls, baseDomain |-> getBaseDomain(start)]
      /\ ret' = [fn |-> "shouldCrawl",
                  value |-> shouldCrawlOf(impl, visitedUrls, getBaseDomain(start), url)]
      /\ UNCHANGED <<serviceVars, variant, maxPages, maxDepth, minQualityScore, visited, queue,
                     siteMap, pageRelationships, pagesScanned, startUrl, baseDomain,
                     scanning, pc, cur, urlArg, attempts, skipped, events, failedUrls,
                     cancelled, fresh, runs, orphan, heap, scans>>

----------------------------------------------------------------------------
(* classifyPageType and calculateQualityScore *)

\* scanner.js: the URL keywords of classifyPageType and their page types, in
\* the order of the if statements
serverUrlRules ==
  <<
     [patterns |-> {<<"/","f","a","q">>, <<"/","f","a","q","s">>},
      pageType |-> "FAQ"],
     [patterns |-> {<<"/","h","e","l","p">>, <<"/","s","u","p","p","o","r","t">>, <<"/","c","u","s","t","o","m","e","r","-","s","e","r","v","i","c","e">>},
      pageType |-> "Support"],
     [patterns |-> {<<"/","d","o","c","u","m","e","n","t","a","t","i","o","n">>, <<"/","d","o","c","s">>, <<"/","m","a","n","u","a","l">>},
      pageType |-> "Documentation"],
     [patterns |-> {<<"/","g","u","i","d","e">>, <<"/","h","o","w","-","t","o">>, <<"/","t","u","t","o","r","i","a","l">>},
      pageType |-> "Guide"],
     [patterns |-> {<<"/","a","p","i">>, <<"/","d","e","v","e","l","o","p","e","r">>},
      pageType |-> "API Documentation"],
     [patterns |-> {<<"/","k","n","o","w","l","e","d","g","e">>, <<"/","k","b">>},
      pageType |-> "Knowledge Base"],
     [patterns |-> {<<"/","p","r","o","d","u","c","t">>, <<"/","s","h","o","p">>},
      pageType |-> "Product"],
     [patterns |-> {<<"/","c","o","n","t","a","c","t">>},
      pageType |-> "Contact"],
     [patterns |-> {<<"/","a","b","o","u","t">>},
      pageType |-> "About"],
     [patterns |-> {<<"/","b","l","o","g">>, <<"/","a","r","t","i","c","l","e">>},
      pageType |-> "Blog/Article"]
  >>

\* app.js, the scanner with proxy fallback: the same table
proxyUrlRules ==
  <<
     [patterns |-> {<<"/","f","a","q">>, <<"/","f","a","q","s">>},
      pageType |-> "FAQ"],
     [patterns |-> {<<"/","h","e","l","p">>, <<"/","s","u","p","p","o","r","t">>, <<"/","c","u","s","t","o","m","e","r","-","s","e","r","v","i","c","e">>, <<"/","a","s","s","i","s","t","a","n","c","e">>},
      pageType |-> "Support"],
     [patterns |-> {<<"/","d","o","c","u","m","e","n","t","a","t","i","o","n">>, <<"/","d","o","c","s">>, <<"/","m","a","n","u","a","l">>, <<"/","u","s","e","r","-","g","u","i","d","e">>},
      pageType |-> "Documentation"],
     [patterns |-> {<<"/","g","u","i","d","e">>, <<"/","h","o","w","-","t","o">>, <<"/","t","u","t","o","r","i","a","l">>, <<"/","g","e","t","t","i","n","g","-","s","t","a","r","t","e","d">>},
      pageType |-> "Guide"],
     [patterns |-> {<<"/","t","r","o","u","b","l","e","s","h","o","o","t">>, <<"/","p","r","o","b","l","e","m">>, <<"/","s","o","l","u","t","i","o","n">>, <<"/","f","i","x">>},
      pageType |-> "Troubleshooting"],
     [patterns |-> {<<"/","a","p","i">>, <<"/","d","e","v","e","l","o","p","e","r">>, <<"/","r","e","f","e","r","e","n","c","e">>},
      pageType |-> "API Documentation"],
     [patterns |-> {<<"/","k","n","o","w","l","e","d","g","e">>, <<"/","k","b">>, <<"/","r","e","s","o","u","r","c","e","s">>},
      pageType |-> "Knowledge Base"],
     [patterns |-> {<<"/","p","o","l","i","c","y">>, <<"/","t","e","r","m","s">>, <<"/","p","r","i","v","a","c","y">>, <<"/","l","e","g","a","l">>},
      pageType |-> "Legal/Policy"],
     [patterns |-> {<<"/","p","r","o","d","u","c","t">>, <<"/","s","h","o","p">>, <<"/","s","t","o","r","e">>, <<"/","c","a","t","a","l","o","g">>},
      pageType |-> "Product"],
     [patterns |-> {<<"/","s","e","r","v","i","c","e">>, <<"/","o","f","f","e","r","i","n","g">>},
      pageType |-> "Service"],
     [patterns |-> {<<"/","c","o","n","t","a","c","t">>, <<"/","r","e","a","c","h","-","u","s">>},
      pageType |-> "Contact"],
     [patterns |-> {<<"/","a","b","o","u","t">>, <<"/","c","o","m","p","a","n","y">>},
      pageType |-> "About"],
     [patterns |-> {<<"/","b","l","o","g">>, <<"/","p","o","s","t">>, <<"/","a","r","t","i","c","l","e">>, <<"/","n","e","w","s">>},
      pageType |-> "Blog/Article"],
     [patterns |-> {<<"/","r","e","v","i","e","w">>, <<"/","t","e","s","t","i","m","o","n","i","a","l">>, <<"/","f","e","e","d","b","a","c","k">>},
      pageType |-> "Reviews"]
  >>

UrlRulesOf(impl) == IF impl = "server" THEN serverUrlRules ELSE proxyUrlRules

\* the index of the first rule with a keyword in the URL, 0 when there is none
FirstUrlRule(rules, urlLower) ==
  IF \E k \in DOMAIN rules : \E kw \in rules[k].patterns : Includes(urlLower, kw)
  THEN CHOOSE k \in DOMAIN rules :
         /\ \E kw \in rules[k].patterns : Includes(urlLower, kw)
         /\ \A j \in 1..(k - 1) : \A kw \in rules[j].patterns : ~Includes(urlLower, kw)
  ELSE 0

\* title.includes('frequently asked') || title.includes('faq')
TitleIsFaq(title) ==
  \/ Includes(title, <<"f","r","e","q","u","e","n","t","l","y"," ","a","s","k","e","d">>)
  \/ Includes(title, <<"f","a","q">>)

\* the og:type branch of app.js; "" when it decides nothing
OgTypePage(ogType) ==
  IF Includes(ogType, <<"a","r","t","i","c","l","e">>) THEN "Blog/Article"
  ELSE IF Includes(ogType, <<"p","r","o","d","u","c","t">>) THEN "Product"
  ELSE IF Includes(ogType, <<"f","a","q">>) THEN "FAQ"
  ELSE ""

\* classifyPageType(url, doc) of an implementation; start is this.startUrl.
\* The first if statement tests the FAQ keywords of the URL and the title
\* together; scanner.js has no og:type and no start URL branch
classifyPageType(impl, url, doc, start) ==
  LET urlLower == toLowerCase(url)
      title    == toLowerCase(doc.title)
      rules    == UrlRulesOf(impl)
      k        == FirstUrlRule(rules, urlLower)
  IN  IF k = 1 \/ TitleIsFaq(title) THEN "FAQ"
      ELSE IF k # 0 THEN rules[k].pageType
      ELSE IF impl # "server" /\ (urlLower = start \/ urlLower = start \o <<"/">>)
      THEN "Homepage"
      ELSE IF impl # "server" /\ OgTypePage(doc.ogType) # "" THEN OgTypePage(doc.ogType)
      ELSE IF doc.bodyFaq THEN "FAQ"
      ELSE "Other"

\* the documents classified: title, og:type meta content, and whether the
\* body holds "frequently asked questions" or an FAQPage item
Documents ==
  [title : {<< >>, <<"F","A","Q">>, <<"H","e","l","p"," ","C","e","n","t","e","r">>, <<"F","r","e","q","u","e","n","t","l","y"," ","A","s","k","e","d"," ","Q","u","e","s","t","i","o","n","s">>},
   ogType : {<< >>, <<"a","r","t","i","c","l","e">>, <<"w","e","b","s","i","t","e">>},
   bodyFaq : BOOLEAN]

PageUrls ==
  {normalizeUrl(HttpScheme \o <<"a",".","c","o">> \o q) :
     q \in {<< >>, <<"/","h","e","l","p">>, <<"/","f","a","q">>, <<"/","a","b","o","u","t">>, <<"/","x">>, <<"/","d","o","c","s","/","a","p","i">>, <<"/","B","l","o","g","/","f","a","q">>}}

CallClassifyPageType(impl, url, doc) ==
  /\ arg = NoCall
  /\ arg' = [fn |-> "classifyPageType", impl |-> impl, url |-> url, doc |-> doc,
              startUrl |-> normalizeUrl(U_root)]
  /\ ret' = [fn |-> "classifyPageType",
              value |-> classifyPageType(impl, url, doc, normalizeUrl(U_root))]
  /\ UNCHANGED <<serviceVars, variant, maxPages, maxDepth, minQualityScore, visited, queue,
                 siteMap, pageRelationships, pagesScanned, startUrl, baseDomain,
                 scanning, pc, cur, urlArg, attempts, skipped, events, failedUrls,
                 cancelled, fresh, runs, orphan, heap, scans>>

valuableTypes == {"FAQ", "Documentation", "Guide", "Support", "Help"}

calculateQualityScore_noCap(textLength, headingCount, h2, qaCount, pageType) ==
  (IF textLength > 500 THEN 20 ELSE 0) + (IF textLength > 1500 THEN 20 ELSE 0)
  + (IF textLength > 3000 THEN 10 ELSE 0) + (IF headingCount > 3 THEN 15 ELSE 0)
  + (IF h2 > 2 THEN 10 ELSE 0) + (IF qaCount > 0 THEN 25 ELSE 0)
  + (IF qaCount > 5 THEN 15 ELSE 0) + (IF pageType \in valuableTypes THEN 20 ELSE 0)

calculateQualityScore_atThreshold(textLength, headingCount, h2, qaCount, pageType) ==
  LET score == (IF textLength >= 500 THEN 20 ELSE 0) + (IF textLength > 1500 THEN 20 ELSE 0)
               + (IF textLength > 3000 THEN 10 ELSE 0) + (IF headingCount > 3 THEN 15 ELSE 0)
               + (IF h2 > 2 THEN 10 ELSE 0) + (IF qaCount > 0 THEN 25 ELSE 0)
               + (IF qaCount > 5 THEN 15 ELSE 0) + (IF pageType \in valuableTypes THEN 20 ELSE 0)
  IN  IF score > 100 THEN 100 ELSE score

\* calculateQualityScore(content, headings, qaItems, pageType) on
\* content.text.length, headings.hierarchy.length, headings.h2, qaItems.length
calculateQualityScore(textLength, headingCount, h2, qaCount, pageType) ==
  LET s1 == IF textLength > 500 THEN 20 ELSE 0
      s2 == IF textLength > 1500 THEN s1 + 20 ELSE s1
      s3 == IF textLength > 3000 THEN s2 + 10 ELSE s2
      s4 == IF headingCount > 3 THEN s3 + 15 ELSE s3
      s5 == IF h2 > 2 THEN s4 + 10 ELSE s4
      s6 == IF qaCount > 0 THEN s5 + 25 ELSE s5
      s7 == IF qaCount > 5 THEN s6 + 15 ELSE s6
      score == IF pageType \in valuableTypes THEN s7 + 20 ELSE s7
  IN  IF 100 < score THEN 100 ELSE score

\* the inputs of the scorer: lengths and counts on both sides of every
\* threshold, and page types with and without bonus
TextLengths == {0, 500, 501, 1500, 1501, 3000, 3001}

HeadingCounts == {0, 3, 4, 7}

QaCounts == {0, 1, 5, 6}

PageTypes == {"FAQ", "Documentation", "Guide", "Support", "Help", "About", "Other"}

\* an h2 is one of the headings of the hierarchy
CallCalculateQualityScore(textLength, headingCount, h2, qaCount, pageType) ==
  /\ arg = NoCall
  /\ h2 <= headingCount
  /\ arg' = [fn |-> "calculateQualityScore", textLength |-> textLength,
              headingCount |-> headingCount, h2 |-> h2, qaCount |-> qaCount,
              pageType |-> pageType]
  /\ ret' = [fn |-> "calculateQualityScore",
              value |-> calculateQualityScore(textLength, headingCount, h2, qaCount, pageType)]
  /\ UNCHANGED <<serviceVars, variant, maxPages, maxDepth, minQualityScore, visited, queue,
                 siteMap, pageRelationships, pagesScanned, startUrl, baseDomain,
                 scanning, pc, cur, urlArg, attempts, skipped, events, failedUrls,
                 cancelled, fresh, runs, orphan, heap, scans>>

\* the strings normalizeUrl is given: an upper-case host, paths and queries
\* with and without slashes at their end, with and without a fragment
RawUrls ==
  {HttpScheme \o h \o q \o f :
     h \in { <<"a",".","c","o">>, <<"A",".","c","o">> },
     q \in { << >>, <<"/">>, <<"/","/">>, <<"/","b">>, <<"/","b","/">>,
             <<"/","b","/","/">>, <<"/","b","?","q","=","/">>, <<"/","b","/","?">>,
             <<"?","q">> },
     f \in { << >>, <<"#">>, <<"#","x">>, <<"#","x","/">> }}
  \cup {U_noScheme}

\* this.normalizeUrl(url)
CallNormalizeUrl(url) ==
  /\ arg = NoCall
  /\ arg' = [fn |-> "normalizeUrl", url |-> url]
  /\ ret' = [fn |-> "normalizeUrl", value |-> normalizeUrl(url)]
  /\ UNCHANGED <<serviceVars, variant, maxPages, maxDepth, minQualityScore, visited, queue,
                 siteMap, pageRelationships, pagesScanned, startUrl, baseDomain,
                 scanning, pc, cur, urlArg, attempts, skipped, events, failedUrls,
                 cancelled, fresh, runs, orphan, heap, scans>>

----------------------------------------------------------------------------
(* exportData: the rag and vectordb formats. A page is its url, its score,  *)
(* the lengths of its content.paragraphs and the number of its qaItems; the *)
(* output is the documents / vectors array of the JSON that is returned     *)

\* the chunks of a rag document: the paragraphs longer than 100 characters,
\* then one chunk per Q&A item
RagChunks(pageData) ==
  Len(SelectSeq(pageData.paragraphs, LAMBDA length : length > 100)) + pageData.qaCount

RECURSIVE exportForRAG(_)
exportForRAG(pages) ==
  IF pages = << >> THEN << >>
  ELSE LET pageData == Head(pages)
       IN  (IF pageData.qualityScore < 30 THEN << >>
            ELSE <<[url |-> pageData.url, qualityScore |-> pageData.qualityScore,
                    chunks |-> RagChunks(pageData)]>>)
           \o exportForRAG(Tail(pages))

\* one vector per paragraph longer than 100 characters, with the index of the
\* paragraph in its id, then one vector per Q&A item
PageVectors(pageData) ==
  LET paragraphs == pageData.paragraphs
      long == SelectSeq([i \in 1..Len(paragraphs) |-> i], LAMBDA i : paragraphs[i] > 100)
  IN  [k \in 1..Len(long) |->
         [id |-> <<pageData.url, "chunk", long[k] - 1>>, url |-> pageData.url]]
      \o [k \in 1..pageData.qaCount |->
            [id |-> <<pageData.url, "qa", k - 1>>, url |-> pageData.url]]

RECURSIVE exportVectorDB_everyPage(_)
exportVectorDB_everyPage(pages) ==
  IF pages = << >> THEN << >>
  ELSE PageVectors(Head(pages)) \o exportVectorDB_everyPage(Tail(pages))

RECURSIVE exportVectorDB(_)
exportVectorDB(pages) ==
  IF pages = << >> THEN << >>
  ELSE LET pageData == Head(pages)
       IN  (IF pageData.qualityScore < 30 THEN << >> ELSE PageVectors(pageData))
           \o exportVectorDB(Tail(pages))

\* case 'rag' / case 'vectordb' of exportData
exportData(pages, format) ==
  IF format = "rag" THEN exportForRAG(pages) ELSE exportVectorDB(pages)

MaxExportPages == 2      \* pages given to an export

\* pages of a scan: scores on both sides of 30, with and without a paragraph
\* longer than 100 characters, with and without Q&A items
ExportPages ==
  [url : {U_root, U_other, U_wwwC}, qualityScore : {29, 30, 80},
   paragraphs : {<< >>, <<100, 150>>}, qaCount : {0, 1}]

\* scanner.exportData(scan.pages, format, scan.domain); the pages of a scan
\* are the values of siteMap, one per URL
CallExportData(pages, format) ==
  /\ arg = NoCall
  /\ \A i, j \in DOMAIN pages : pages[i].url = pages[j].url => i = j
  /\ arg' = [fn |-> "exportData", pages |-> pages, format |-> format]
  /\ ret' = [fn |-> "exportData", value |-> exportData(pages, format)]
  /\ UNCHANGED <<serviceVars, variant, maxPages, maxDepth, minQualityScore, visited, queue,
                 siteMap, pageRelationships, pagesScanned, startUrl, baseDomain,
                 scanning, pc, cur, urlArg, attempts, skipped, events, failedUrls,
                 cancelled, fresh, runs, orphan, heap, scans>>

\* one call per behaviour: a method is called while none has been called
MethodsNext ==
  \/ arg = NoCall /\ \E impl \in Impls, url \in CandidateUrls, startVisited \in BOOLEAN :
       CallShouldCrawl(impl, url, startVisited)
  \/ arg = NoCall /\ \E impl \in Impls, url \in PageUrls, doc \in Documents :
       CallClassifyPageType(impl, url, doc)
  \/ arg = NoCall /\ \E textLength \in TextLengths, headingCount \in HeadingCounts,
                        h2 \in {0, 2, 3}, qaCount \in QaCounts, pageType \in PageTypes :
       CallCalculateQualityScore(textLength, headingCount, h2, qaCount, pageType)
  \/ arg = NoCall /\ \E url \in RawUrls : CallNormalizeUrl(url)
  \/ arg = NoCall /\ \E pages \in SeqsUpTo(ExportPages, MaxExportPages),
                        format \in {"rag", "vectordb"} :
       CallExportData(pages, format)

SpecMethods == ServerInit /\ [][MethodsNext]_vars

----------------------------------------------------------------------------
(* ProxyManager of app.js: fetchWithFallback(targetUrl) tries the proxy     *)
(* cached for the domain, then every proxy of the list, then a direct       *)
(* fetch; it is cut at the await of each attempt. The crawl awaits each     *)
(* call, so that one call is in progress at a time                          *)

\* this.proxies, by name, in the order of the array
proxies == <<"allorigins", "corsproxy.io", "thingproxy", "proxy.cors.sh", "cors-anywhere">>

\* the hostnames of the target URLs
ProxyDomains == {UrlHost(U_root), UrlHost(U_other)}

MaxCalls == 2        \* fetchWithFallback() calls on one ProxyManager

\* html.length of the documents received; 100 is the largest length that
\* isValidHTML refuses
HtmlLengths == {0, 100, 101}

\* what an attempt comes to: fetchWithTimeout throws (network error, abort
\* after the timeout), or a response with its ok flag and its text; marker
\* says that the text includes '<html', '<!DOCTYPE', '<HTML' or '<body'
AttemptThrew == [kind |-> "threw", ok |-> FALSE, length |-> 0, marker |-> FALSE]

ProxyResponses ==
  {AttemptThrew} \cup
  {r \in [kind : {"response"}, ok : BOOLEAN, length : HtmlLengths, marker : BOOLEAN] :
     r.marker => r.length > 0}

\* html && html.length > 100 && (html.includes('<html') || ..)
isValidHTML(html) == html.length # 0 /\ html.length > 100 /\ html.marker

\* an attempt ends in `return html`: no exception, response.ok and valid text
AttemptReturns(response) ==
  response.kind = "response" /\ response.ok /\ isValidHTML(response)

FirstIndex_skipsOne == 1 + 1

\* for (let i = 0; ..): the first index of the loop (the sequence `proxies`
\* starts at 1)
FirstIndex == 1

\* const domain = new URL(targetUrl).hostname; the cached proxy is tried if
\* there is one, else the loop starts (the target URLs are those of the
\* crawl queue, which parse)
FetchWithFallback(domain) ==
  /\ proxyFetch.pc \in {"idle", "returned", "threw"}
  /\ proxyFetch.calls < MaxCalls
  /\ LET cached == IF domain \in DOMAIN workingProxies THEN workingProxies[domain] ELSE NoProxy
     IN  proxyFetch' =
           [pc |-> IF cached # NoProxy THEN "cached" ELSE "list",
            domain |-> domain, i |-> FirstIndex, cached |-> cached,
            tried |-> <<IF cached # NoProxy THEN cached ELSE proxies[FirstIndex]>>,
            last |-> NoResponse, result |-> NoResponse, calls |-> proxyFetch.calls + 1]
  /\ UNCHANGED <<scannerVars, workingProxies, quick, apiVars>>

\* the attempt with the cached proxy ends: its text is returned, or the loop
\* over the list starts
CachedAttemptEnds(response) ==
  /\ proxyFetch.pc = "cached"
  /\ proxyFetch' =
       IF AttemptReturns(response)
       THEN [proxyFetch EXCEPT !.pc = "returned", !.last = response, !.result = response]
       ELSE [proxyFetch EXCEPT !.pc = "list", !.last = response,
                               !.tried = Append(@, proxies[FirstIndex])]
  /\ UNCHANGED <<scannerVars, workingProxies, quick, apiVars>>

\* the attempt with proxies[i] ends: its text is returned and the proxy
\* cached for the domain, or the next proxy is tried, or the direct fetch
ListAttemptEnds(response) ==
  /\ proxyFetch.pc = "list"
  /\ IF AttemptReturns(response)
     THEN /\ workingProxies' =
               (proxyFetch.domain :> proxies[proxyFetch.i]) @@ workingProxies
          /\ proxyFetch' =
               [proxyFetch EXCEPT !.pc = "returned", !.last = response, !.result = response]
     ELSE /\ proxyFetch' =
               IF proxyFetch.i < Len(proxies)
               THEN [proxyFetch EXCEPT !.i = @ + 1, !.last = response,
                                       !.tried = Append(@, proxies[proxyFetch.i + 1])]
               ELSE [proxyFetch EXCEPT !.pc = "direct", !.last = response,
                                       !.tried = Append(@, "direct")]
          /\ UNCHANGED workingProxies
  /\ UNCHANGED <<scannerVars, quick, apiVars>>

\* the direct fetch ends: its text is returned, or
\* throw new Error('All proxy methods failed')
DirectAttemptEnds(response) ==
  /\ proxyFetch.pc = "direct"
  /\ proxyFetch' =
       IF AttemptReturns(response)
       THEN [proxyFetch EXCEPT !.pc = "returned", !.last = response, !.result = response]
       ELSE [proxyFetch EXCEPT !.pc = "threw", !.last = response]
  /\ UNCHANGED <<scannerVars, workingProxies, quick, apiVars>>

ProxyNext ==
  \/ \E domain \in ProxyDomains : FetchWithFallback(domain)
  \/ \E response \in ProxyResponses : CachedAttemptEnds(response)
  \/ \E response \in ProxyResponses : ListAttemptEnds(response)
  \/ \E response \in ProxyResponses : DirectAttemptEnds(response)

SpecProxy == BrowserInit /\ [][ProxyNext]_vars

----------------------------------------------------------------------------
(* The serverless function api-scan: its handler awaits quickScan(url,      *)
(* options), a crawl loop of its own, cut at the await of axios.get. The    *)
(* URLs of the site are numbered, the start URL being 0: quickScan compares *)
(* them as strings and does not normalise them                              *)

NumUrls == 7         \* URLs of the site, the start URL included

QuickUrls == 0..(NumUrls - 1)

StartUrl == 0

\* options.maxPages of the request body: not given, negative, or a count
QuickMaxPagesOpts == {Undefined, -2, 1, 2, 10, 11}

\* Math.min(.., 10): "Max 10 pages for serverless"
ServerlessCap == 10

\* Math.min(a, b)
Min(a, b) == IF a < b THEN a ELSE b

\* const maxPages = Math.min(options.maxPages || 5, 10)
QuickMaxPages(optMaxPages) == Min(OrDefault(optMaxPages, 5), ServerlessCap)

\* the URLs in increasing order
RECURSIVE UrlsFrom(_)
UrlsFrom(u) == IF u >= NumUrls THEN << >> ELSE <<u>> \o UrlsFrom(u + 1)

\* pageData.links of the page at url (unique, same hostname; the cut to 20
\* links has no effect on a site of NumUrls URLs): none, the next URL, or
\* all URLs of the site
QuickLinks(url) ==
  {<< >>, UrlsFrom(0)} \cup (IF url + 1 < NumUrls THEN {<<url + 1>>} ELSE {})

\* axios.get throws (timeout, network, non-2xx status), or the page arrives
QuickResponses(url) ==
  {[kind |-> "error", links |-> << >>]} \cup [kind : {"ok"}, links : QuickLinks(url)]

QueueHasRoom_always(q, m) == TRUE

\* queue.length < maxPages * 2
QueueHasRoom(q, m) == Len(q) < m * 2

\* for (const link of pageData.links)
\*   if (!visited.has(link) && queue.length < maxPages * 2) queue.push(link)
RECURSIVE QuickEnqueue(_, _, _, _)
QuickEnqueue(q, links, seen, m) ==
  IF links = << >> THEN q
  ELSE QuickEnqueue(IF Head(links) \notin seen /\ QueueHasRoom(q, m)
                    THEN Append(q, Head(links)) ELSE q,
                    Tail(links), seen, m)

\* the handler has checked the URL and calls quickScan(url, options)
QuickScan(optMaxPages) ==
  /\ quick.pc = "idle"
  /\ quick' = [NoQuickScan EXCEPT !.pc = "loop", !.maxPages = QuickMaxPages(optMaxPages),
                                  !.queue = <<StartUrl>>]
  /\ UNCHANGED <<scannerVars, proxyVars, apiVars>>

\* while (queue.length > 0 && results.length < maxPages)
QuickLoopCond == Len(quick.queue) > 0 /\ Len(quick.results) < quick.maxPages

\* the condition is false: return results
QuickLoopExit ==
  /\ quick.pc = "loop"
  /\ ~QuickLoopCond
  /\ quick' = [quick EXCEPT !.pc = "returned"]
  /\ UNCHANGED <<scannerVars, proxyVars, apiVars>>

\* if (visited.has(url)) continue
QuickLoopSkip ==
  /\ quick.pc = "loop"
  /\ QuickLoopCond
  /\ Head(quick.queue) \in quick.visited
  /\ quick' = [quick EXCEPT !.queue = Tail(@)]
  /\ UNCHANGED <<scannerVars, proxyVars, apiVars>>

\* visited.add(url), and the request is sent
QuickLoopVisit ==
  /\ quick.pc = "loop"
  /\ QuickLoopCond
  /\ Head(quick.queue) \notin quick.visited
  /\ quick' = [quick EXCEPT !.pc = "fetching", !.queue = Tail(@),
                            !.url = Head(quick.queue),
                            !.visited = @ \cup {Head(quick.queue)},
                            !.fetched = Append(@, Head(quick.queue))]
  /\ UNCHANGED <<scannerVars, proxyVars, apiVars>>

\* await axios.get(url) ends: the page is pushed to results and, if the
\* limit is not reached, its links are queued; an exception is logged
QuickFetchReturn(response) ==
  /\ quick.pc = "fetching"
  /\ quick' =
       IF response.kind = "ok"
       THEN [quick EXCEPT !.pc = "loop", !.results = Append(@, quick.url),
                          !.queue = IF Len(quick.results) + 1 < quick.maxPages
                                    THEN QuickEnqueue(@, response.links, quick.visited,
                                                      quick.maxPages)
                                    ELSE @]
       ELSE [quick EXCEPT !.pc = "loop"]
  /\ UNCHANGED <<scannerVars, proxyVars, apiVars>>

QuickStep ==
  \/ QuickLoopExit
  \/ QuickLoopSkip
  \/ QuickLoopVisit
  \/ \E response \in QuickResponses(quick.url) : QuickFetchReturn(response)

QuickNext ==
  \/ \E optMaxPages \in QuickMaxPagesOpts : QuickScan(optMaxPages)
  \/ QuickStep

SpecQuick == ServerInit /\ [][QuickNext]_vars

\* axios.get is given a timeout of 3 s: every request ends
SpecQuickLive == SpecQuick /\ WF_vars(QuickStep)

----------------------------------------------------------------------------
(* The API server with its job queue: POST /api/scan and POST /api/batch    *)
(* add jobs to scanQueue, the callback of scanQueue.process runs them one   *)
(* at a time; without the queue POST /api/scan runs processScanDirectly.    *)
(* The handlers are cut at `await scanQueue.add`, the worker and            *)
(* processScanDirectly at `await scanner.crawl`. A client waits for a batch *)
(* with waitForBatchCompletion. The crawl itself is the one of Spec: here   *)
(* it returns its result, or throws for a start URL that does not parse     *)

MaxRequests == 2     \* POST requests the server receives

\* urls.length > 10 is refused
MaxBatchUrls == 10

RECURSIVE Repeat(_, _)
Repeat(x, n) == IF n = 0 THEN << >> ELSE <<x>> \o Repeat(x, n - 1)

\* the urls arrays of the batch requests: empty, one URL, a URL that parses
\* and one that does not, 10 URLs, 11 URLs; the scenarios are MaxRequests
\* requests of at most SmallBatch URLs, and one request of more URLs alone
SmallBatch == 2

BatchUrls ==
  {<< >>, <<U_root>>, <<U_root, U_noScheme>>, Repeat(U_other, MaxBatchUrls),
   Repeat(U_other, MaxBatchUrls + 1)}

\* the URLs of the scan requests
ScanUrls == {U_root, U_noScheme}

\* crawl(url) throws 'Invalid URL provided'
CrawlThrows(url) == StartRejected(normalizeUrl(url))

\* server.js at start: scanQueue = new Queue(..) if ENABLE_REDIS is 'true'
ServerStart(enableRedis) ==
  /\ handler.pc = "down"
  /\ queueOn' = enableRedis
  /\ handler' = Listening
  /\ UNCHANGED <<scannerVars, proxyVars, quick, waiting, scanResults, requests, worker,
                 directs, client, nextId>>

\* a request of n URLs can be received
Receives(n) ==
  /\ handler.pc = "idle"
  /\ Len(requests) < MaxRequests
  /\ n > SmallBatch => requests = << >>
  /\ \A k \in DOMAIN requests : Len(requests[k].urls) <= SmallBatch

\* the record scanResults.set(..) stores
ScanRecord(status, url, batchId) == [status |-> status, url |-> url, batchId |-> batchId]

Answered(kind, urls, id, http) == [kind |-> kind, urls |-> urls, id |-> id, http |-> http]

\* POST /api/scan with the queue: await scanQueue.add({ scanId, url, options })
PostScanAdd(url) ==
  /\ Receives(1)
  /\ queueOn
  /\ nextId' = nextId + 1
  /\ waiting' = Append(waiting, [scanId |-> nextId + 1, url |-> url, batchId |-> 0])
  /\ handler' = [Listening EXCEPT !.pc = "scanAdded", !.urls = <<url>>, !.scanId = nextId + 1]
  /\ UNCHANGED <<scannerVars, proxyVars, quick, queueOn, scanResults, requests, worker,
                 directs, client>>

\* scanQueue.add has resolved: scanResults.set(scanId, { status: 'queued', .. })
\* and the response
PostScanStore ==
  /\ handler.pc = "scanAdded"
  /\ scanResults' =
       (handler.scanId :> ScanRecord("queued", handler.urls[1], 0)) @@ scanResults
  /\ requests' = Append(requests, Answered("scan", handler.urls, handler.scanId, 200))
  /\ handler' = Listening
  /\ UNCHANGED <<scannerVars, proxyVars, quick, queueOn, waiting, worker, directs,
                 client, nextId>>

\* POST /api/scan without the queue: the record is stored with status
\* 'processing' and processScanDirectly runs up to its await
PostScanDirect(url) ==
  /\ Receives(1)
  /\ ~queueOn
  /\ nextId' = nextId + 1
  /\ scanResults' = (nextId + 1 :> ScanRecord("processing", url, 0)) @@ scanResults
  /\ directs' = directs \cup {nextId + 1}
  /\ requests' = Append(requests, Answered("scan", <<url>>, nextId + 1, 200))
  /\ UNCHANGED <<scannerVars, proxyVars, quick, queueOn, waiting, handler, worker, client>>

\* the status after crawl(url): 'completed', or 'failed' in the catch block
StatusAfter(url) == IF CrawlThrows(url) THEN "failed" ELSE "completed"

\* processScanDirectly: await scanner.crawl(url) ends
DirectCrawlEnds(id) ==
  /\ id \in directs
  /\ directs' = directs \ {id}
  /\ scanResults' = [scanResults EXCEPT ![id].status = StatusAfter(scanResults[id].url)]
  /\ UNCHANGED <<scannerVars, proxyVars, quick, queueOn, waiting, handler, requests,
                 worker, client, nextId>>

\* POST /api/batch: the checks of urls, then the first scanQueue.add, which
\* throws a TypeError on the null scanQueue
PostBatch(urls) ==
  /\ Receives(Len(urls))
  /\ IF Len(urls) = 0 \/ Len(urls) > MaxBatchUrls
     THEN /\ requests' = Append(requests, Answered("batch", urls, 0, 400))
          /\ UNCHANGED <<nextId, waiting, handler>>
     ELSE IF ~queueOn
     THEN /\ nextId' = nextId + 2
          /\ requests' = Append(requests, Answered("batch", urls, nextId + 1, 500))
          /\ UNCHANGED <<waiting, handler>>
     ELSE /\ nextId' = nextId + 2
          /\ waiting' = Append(waiting, [scanId |-> nextId + 2, url |-> urls[1],
                                         batchId |-> nextId + 1])
          /\ handler' = [pc |-> "batchAdded", urls |-> urls, k |-> 1,
                         batchId |-> nextId + 1, scanId |-> nextId + 2]
          /\ UNCHANGED requests
  /\ UNCHANGED <<scannerVars, proxyVars, quick, queueOn, scanResults, worker, directs,
                 client>>

\* scanQueue.add has resolved in the loop of POST /api/batch: the record of
\* the job is stored, then the next job is added or the response is sent
PostBatchStore ==
  /\ handler.pc = "batchAdded"
  /\ scanResults' =
       (handler.scanId :> ScanRecord("queued", handler.urls[handler.k], handler.batchId))
         @@ scanResults
  /\ IF handler.k < Len(handler.urls)
     THEN /\ nextId' = nextId + 1
          /\ waiting' = Append(waiting, [scanId |-> nextId + 1,
                                         url |-> handler.urls[handler.k + 1],
                                         batchId |-> handler.batchId])
          /\ handler' = [handler EXCEPT !.k = @ + 1, !.scanId = nextId + 1]
          /\ UNCHANGED requests
     ELSE /\ requests' = Append(requests, Answered("batch", handler.urls, handler.batchId, 200))
          /\ handler' = Listening
          /\ UNCHANGED <<nextId, waiting>>
  /\ UNCHANGED <<scannerVars, proxyVars, quick, queueOn, worker, directs, client>>

MarkProcessing_creates(recs, job) ==
  (job.scanId :> ScanRecord("processing", job.url, job.batchId)) @@ recs

\* const scan = scanResults.get(scanId); if (scan) scan.status = 'processing'
MarkProcessing(recs, job) ==
  IF job.scanId \in DOMAIN recs THEN [recs EXCEPT ![job.scanId].status = "processing"]
  ELSE recs

\* the callback of scanQueue.process is called with the next job (one job at
\* a time) and runs up to await scanner.crawl(url)
WorkerStart ==
  /\ worker.pc = "idle"
  /\ Len(waiting) > 0
  /\ waiting' = Tail(waiting)
  /\ scanResults' = MarkProcessing(scanResults, Head(waiting))
  /\ worker' = [pc |-> "crawling", scanId |-> Head(waiting).scanId,
                url |-> Head(waiting).url,
                scan |-> Head(waiting).scanId \in DOMAIN scanResults']
  /\ UNCHANGED <<scannerVars, proxyVars, quick, queueOn, handler, requests, directs,
                 client, nextId>>

\* await scanner.crawl(url) ends in the worker: if (scan) scan.status =
\* 'completed' on the record found at the start; in the catch block the
\* record is looked up again
WorkerCrawlEnds ==
  /\ worker.pc = "crawling"
  /\ scanResults' =
       IF CrawlThrows(worker.url)
       THEN IF worker.scanId \in DOMAIN scanResults
            THEN [scanResults EXCEPT ![worker.scanId].status = "failed"]
            ELSE scanResults
       ELSE IF worker.scan
            THEN [scanResults EXCEPT ![worker.scanId].status = "completed"]
            ELSE scanResults
  /\ worker' = NoWorker
  /\ UNCHANGED <<scannerVars, proxyVars, quick, queueOn, waiting, handler, requests,
                 directs, client, nextId>>

\* the scanIds of the records of a batch
JobsOf(batchId) == {id \in DOMAIN scanResults : scanResults[id].batchId = batchId}

\* GET /api/batch/:batchId/status
BatchStatus(batchId) ==
  [found |-> JobsOf(batchId) # {},
   totalJobs |-> Cardinality(JobsOf(batchId)),
   completed |-> Cardinality({id \in JobsOf(batchId) : scanResults[id].status = "completed"}),
   failed |-> Cardinality({id \in JobsOf(batchId) : scanResults[id].status = "failed"})]

\* the client calls waitForBatchCompletion(batchId) with the batchId of a
\* response of POST /api/batch
WaitForBatchCompletion ==
  /\ client.pc = "none"
  /\ \E k \in DOMAIN requests :
       /\ requests[k].kind = "batch"
       /\ requests[k].http = 200
       /\ client' = [NoClient EXCEPT !.pc = "polling", !.batchId = requests[k].id]
  /\ UNCHANGED <<scannerVars, proxyVars, quick, queueOn, waiting, scanResults, handler,
                 requests, worker, directs, nextId>>

\* if (status.completed === status.totalJobs)
CompletionTest(status) == status.completed = status.totalJobs

\* one poll: getBatchStatus throws on a 404; when the test holds the results
\* of the completed jobs are fetched and returned; otherwise the client
\* sleeps for pollInterval
ClientPoll ==
  /\ client.pc = "polling"
  /\ LET status == BatchStatus(client.batchId)
     IN  client' =
           IF ~status.found THEN [client EXCEPT !.pc = "threw"]
           ELSE IF CompletionTest(status)
                THEN [client EXCEPT !.pc = "returned", !.results = status.completed]
                ELSE [client EXCEPT !.pc = "sleeping"]
  /\ UNCHANGED <<scannerVars, proxyVars, quick, queueOn, waiting, scanResults, handler,
                 requests, worker, directs, nextId>>

\* the setTimeout of pollInterval fires
ClientWake ==
  /\ client.pc = "sleeping"
  /\ client' = [client EXCEPT !.pc = "polling"]
  /\ UNCHANGED <<scannerVars, proxyVars, quick, queueOn, waiting, scanResults, handler,
                 requests, worker, directs, nextId>>

\* the steps of the server once a request is received
ServerStep ==
  \/ PostScanStore
  \/ PostBatchStore
  \/ WorkerStart
  \/ WorkerCrawlEnds
  \/ \E id \in directs : DirectCrawlEnds(id)

ClientStep ==
  \/ ClientPoll
  \/ ClientWake

QueueNext ==
  \/ \E enableRedis \in BOOLEAN : ServerStart(enableRedis)
  \/ \E url \in ScanUrls : PostScanAdd(url)
  \/ \E url \in ScanUrls : PostScanDirect(url)
  \/ \E urls \in BatchUrls : PostBatch(urls)
  \/ WaitForBatchCompletion
  \/ ServerStep
  \/ ClientStep

SpecQueue == ServerInit /\ [][QueueNext]_vars

\* every await of the server ends (Redis answers, the crawl is bounded by
\* maxPages), and the timers of the client fire
SpecQueueLive == SpecQueue /\ WF_vars(ServerStep) /\ WF_vars(ClientStep)

----------------------------------------------------------------------------
(* Properties of the crawl *)

\* C1: in a crawl no URL is attempted (added to visited and fetched) twice,
\* however often it was enqueued
C1_NoRevisit ==
  \A i, j \in DOMAIN attempts : attempts[i].url = attempts[j].url => i = j

\* a URL that was fetched had a second frontier entry, which was then skipped
C1_Witness ==
  \E e \in skipped : e.depth <= maxDepth /\ \E i \in DOMAIN attempts : attempts[i].url = e.url

\* C2: pagesScanned never exceeds maxPages
C2_BudgetRespected == pagesScanned <= maxPages

\* the budget is used up while entries are pending, after a failed fetch
C2_Witness ==
  pagesScanned = maxPages /\ Len(queue) > 0 /\ failedUrls # {} /\ pc = "done"

\* C3: no retained page record is deeper than maxDepth
C3_DepthWithinMax == \A u \in DOMAIN siteMap : siteMap[u].depth <= maxDepth

\* an entry deeper than maxDepth was dequeued and skipped, pages were retained
C3_Witness ==
  /\ \E e \in skipped : e.depth > maxDepth
  /\ \E u \in DOMAIN siteMap : siteMap[u].depth = maxDepth

\* C4: the result of a crawl holds no page of another site than the start
\* URL's (fails for the browser scanner, whose frontier keeps the entries
\* of the previous scan)
C4_SameSite ==
  pc = "done" =>
    \A u \in DOMAIN siteMap : getBaseDomain(u) = getBaseDomain(startUrl)

\* C5: every retained page record scores at least minQualityScore (fails
\* for the browser scanner, which stores every fetched page)
C5_QualityFilter ==
  \A u \in DOMAIN siteMap : siteMap[u].qualityScore >= minQualityScore

\* C6 as stated: a record without parent has depth 0, any other record is
\* one deeper than the record of its parent
C6_DepthOfParentRecord ==
  \A u \in DOMAIN siteMap :
    IF siteMap[u].parent = Null
    THEN siteMap[u].depth = 0
    ELSE /\ siteMap[u].parent \in DOMAIN siteMap
         /\ siteMap[u].depth = siteMap[siteMap[u].parent].depth + 1

\* C6 amended: only the start URL's record has no parent, and it has depth 0;
\* any other record is one deeper than the depth at which its parent was
\* visited, which is the depth of the parent's record when that was retained
C6_DepthOfParentVisit ==
  \A u \in DOMAIN siteMap :
    IF siteMap[u].parent = Null
    THEN u = startUrl /\ siteMap[u].depth = 0
    ELSE /\ \E i \in DOMAIN attempts :
              /\ attempts[i].url = siteMap[u].parent
              /\ siteMap[u].depth = attempts[i].depth + 1
         /\ siteMap[u].parent \in DOMAIN siteMap =>
              siteMap[u].depth = siteMap[siteMap[u].parent].depth + 1

\* a retained page whose parent was visited but scored below the threshold
C6_Witness ==
  \E u \in DOMAIN siteMap :
    /\ siteMap[u].parent # Null
    /\ siteMap[u].parent \notin DOMAIN siteMap
    /\ siteMap[u].parent \in visited \ failedUrls

\* C7: a running crawl ends, and it ends with an empty frontier or with
\* pagesScanned = maxPages
C7_Terminates ==
  /\ [](pc = "done" => (Len(queue) = 0 \/ pagesScanned = maxPages))
  /\ (pc \in {"loop", "fetching", "delay"}) ~> (pc = "done")

\* a crawl that ended on its page budget with entries still pending
C7_Witness == pc = "done" /\ pagesScanned = maxPages /\ Len(queue) > 0

\* C8: a page whose fetch failed has no record, and the step that sees the
\* failure leaves pages and frontier alone and goes on to the delay, after
\* which the loop takes the next entry
C8_FetchFailureSkipsPage ==
  /\ [](\A u \in failedUrls : u \notin DOMAIN siteMap)
  /\ [](failedUrls # {} => pc # "failed")
  /\ [][pc = "fetching" /\ failedUrls' # failedUrls =>
          pc' = "delay" /\ siteMap' = siteMap /\ queue' = queue]_vars

\* after a failed fetch the crawl attempted and retained a later page
C8_Witness ==
  \E i, j \in DOMAIN attempts :
    /\ i < j
    /\ attempts[i].url \in failedUrls
    /\ attempts[j].url \in DOMAIN siteMap

\* C9: a crawl() call whose argument does not parse ends failed, with
\* nothing visited, no page attempted and no progress event
C9_InvalidStartNeverBegins ==
  (urlArg \in StartArgs /\ ~startParses[urlArg]) =>
    pc = "failed" /\ visited = {} /\ attempts = << >> /\ events = << >>

\* the rejected call came after a crawl that left entries in the frontier
C9_Witness == pc = "failed" /\ runs = 2 /\ Len(queue) > 0

\* C10: when crawl() reaches its loop, visited and pages are empty and the
\* frontier holds the start URL at depth 0 and nothing else (fails for the
\* browser scanner, which pushes the start URL onto the old queue)
C10_FreshSession ==
  fresh =>
    /\ visited = {}
    /\ DOMAIN siteMap = {}
    /\ queue = <<StartEntry(startUrl)>>

\* C11: a crawl whose cancellation was requested takes no further entry from
\* the frontier: at the top of its loop the while condition is false, and an
\* earlier call that was cancelled has begun no attempt since (fails when
\* Scan is pressed again before the cancelled call has returned)
C11_NoAttemptAfterStop ==
  /\ (cancelled /\ pc = "loop") => ~LoopCond
  /\ orphan.cancelled => ~orphan.late

\* C12: two crawl() calls of one scanner never wait for a fetch at the same
\* time (fails when Scan is pressed again before the cancelled call has
\* returned)
C12_OneFetchInFlight == ~(pc = "fetching" /\ orphan.pc = "fetching")

\* C13: scans in progress at once use different scanner objects, and a scan
\* that has ended holds the frontier, visited set, pages and pagesScanned it
\* ends with when it runs alone
C13_SessionsIndependent ==
  /\ \A i, j \in ScanIds :
       (i # j /\ scans[i].scanner # 0 /\ scans[j].scanner # 0) =>
         scans[i].scanner # scans[j].scanner
  /\ \A id \in ScanIds :
       scans[id].status \in {"completed", "failed"} =>
         \E options \in ScanOptions :
           /\ heap[scans[id].scanner].options = WebsiteScanner(options).options
           /\ heap[scans[id].scanner] = aloneResult[scans[id].url, options]

\* a scan of a site has ended, with pages retained, while a scan of the same
\* site that was started before it still waits for a fetch
C13_Witness ==
  \E i, j \in ScanIds :
    /\ scans[i].status = "completed" /\ scans[i].scanner = 2
    /\ scans[j].pc = "fetching" /\ scans[j].scanner = 1
    /\ heap[1].startUrl = heap[2].startUrl
    /\ heap[1].pagesScanned > 1
    /\ DOMAIN heap[2].siteMap # {}

\* C14: the depths of the successive page attempts of a crawl never decrease
\* (fails for the browser scanner, whose frontier starts with the entries
\* the previous scan left)
C14_BreadthFirst ==
  \A i, j \in DOMAIN attempts : i < j => attempts[i].depth <= attempts[j].depth

\* C15 as stated: no frontier entry is deeper than maxDepth
C15_FrontierWithinMaxDepth ==
  \A i \in DOMAIN queue : queue[i].depth <= maxDepth

\* C15 amended: a child is enqueued whatever its depth and skipped when it is
\* dequeued: a frontier entry is at most one deeper than maxDepth, and no
\* page deeper than maxDepth is attempted
C15_TooDeepNeverAttempted ==
  /\ \A i \in DOMAIN queue : queue[i].depth <= maxDepth + 1
  /\ \A i \in DOMAIN attempts : attempts[i].depth <= maxDepth
  /\ pc \in {"fetching", "delay"} => cur.depth <= maxDepth

\* start -> A -> B with maxDepth = 1: A was scanned at depth 1 and B waits in
\* the frontier at depth 2
C15_Witness ==
  /\ maxDepth = 1
  /\ \E i \in DOMAIN queue, k \in DOMAIN attempts :
       /\ queue[i].depth = 2
       /\ attempts[k].url = queue[i].parent
       /\ attempts[k].depth = 1
       /\ attempts[k].parent = startUrl

\* the skip-path list of an implementation
SkipListOf(impl) == IF impl = "server" THEN skipPatterns ELSE proxySkipPatterns

\* the token occurs in the URL and ends at a boundary: at the end of the URL,
\* before "/", "?" or "#", or the token itself ends with "/", "?" or "="
TokenAtBoundary(url, token) ==
  \E i \in 1..(Len(url) - Len(token) + 1) :
    /\ SubSeq(url, i, i + Len(token) - 1) = token
    /\ \/ token[Len(token)] \in {"/", "?", "="}
       \/ i + Len(token) > Len(url)
       \/ url[i + Len(token)] \in {"/", "?", "#"}

\* the names of the single path segments on a skip-path list: "/login", and
\* "/admin" for the entry "/admin/"
SkipSegmentsOf(impl) ==
  LET bare(t) == IF t[Len(t)] = "/" THEN SubSeq(t, 1, Len(t) - 1) ELSE t
  IN  {bare(t) : t \in {x \in SkipListOf(impl) :
                          /\ x[1] = "/"
                          /\ \A k \in 2..Len(bare(x)) : bare(x)[k] \notin {"/", "?", "=", "."}}}

\* C16: shouldCrawl accepts a same-site, unvisited URL without skipped
\* extension in which no skip-path token ends at a boundary, such as
\* /administrator against /admin (fails for the server scanner, which looks
\* for the token as a substring)
C16_SubstringAccepted ==
  (/\ arg.fn = "shouldCrawl"
   /\ arg.url \notin arg.visited
   /\ getBaseDomain(arg.url) = arg.baseDomain
   /\ \A ext \in skipExtensions : ~Includes(toLowerCase(arg.url), ext)
   /\ \A token \in SkipListOf(arg.impl) : ~TokenAtBoundary(toLowerCase(arg.url), token))
  => ret.value = TRUE

\* C17: shouldCrawl rejects a URL that has a skip-listed entry as a path
\* segment, such as /login or /admin/users (fails for the browser scanner
\* with proxy fallback, whose entry "/admin/" must be followed by "/" or "?")
C17_SkipSegmentRejected ==
  (/\ arg.fn = "shouldCrawl"
   /\ \E seg \in SkipSegmentsOf(arg.impl) : TokenAtBoundary(toLowerCase(arg.url), seg))
  => ret.value = FALSE

\* the page type of the first rule that matches when the rules are taken in
\* the order URL keyword, title keyword, og:type, body text, start URL
PageTypeUrlFirst(impl, url, doc, start) ==
  LET urlLower == toLowerCase(url)
      k        == FirstUrlRule(UrlRulesOf(impl), urlLower)
  IN  IF k # 0 THEN UrlRulesOf(impl)[k].pageType
      ELSE IF TitleIsFaq(toLowerCase(doc.title)) THEN "FAQ"
      ELSE IF OgTypePage(doc.ogType) # "" THEN OgTypePage(doc.ogType)
      ELSE IF doc.bodyFaq THEN "FAQ"
      ELSE IF url = start THEN "Homepage"
      ELSE "Other"

\* C18: classifyPageType gives the page type of the first rule that matches
\* in the order URL keyword, title keyword, og:type, body text, start URL,
\* else Other; a URL keyword always decides (fails: the FAQ words of the
\* title are tested in the first if statement, before the other URL keywords)
C18_UrlRuleFirst ==
  arg.fn = "classifyPageType" =>
    /\ ret.value = PageTypeUrlFirst(arg.impl, arg.url, arg.doc, arg.startUrl)
    /\ FirstUrlRule(UrlRulesOf(arg.impl), toLowerCase(arg.url)) # 0 =>
         ret.value = UrlRulesOf(arg.impl)[FirstUrlRule(UrlRulesOf(arg.impl), toLowerCase(arg.url))].pageType

\* C19: the score is min(100, L + S + Q + T) of the content length, the
\* structure, the Q&A pairs and the page type
C19_ScoreFormula ==
  arg.fn = "calculateQualityScore" =>
    LET L == IF arg.textLength > 3000 THEN 50
             ELSE IF arg.textLength > 1500 THEN 40
             ELSE IF arg.textLength > 500 THEN 20 ELSE 0
        S == (IF arg.headingCount > 3 THEN 15 ELSE 0) + (IF arg.h2 > 2 THEN 10 ELSE 0)
        Q == IF arg.qaCount > 5 THEN 25 + 15 ELSE IF arg.qaCount > 0 THEN 25 ELSE 0
        T == IF arg.pageType \in {"FAQ", "Documentation", "Guide", "Support", "Help"}
             THEN 20 ELSE 0
    IN  ret.value = (IF L + S + Q + T < 100 THEN L + S + Q + T ELSE 100)

\* a page at a length threshold whose four parts all count, below the cap
C19_Witness ==
  /\ arg.fn = "calculateQualityScore"
  /\ arg.textLength = 501 /\ arg.headingCount = 4 /\ arg.h2 = 3
  /\ arg.qaCount = 1 /\ arg.pageType = "Help"
  /\ ret.value = 90

\* C20: the score is between 0 and 100
C20_ScoreInRange ==
  arg.fn = "calculateQualityScore" => ret.value \in 0..100

\* the longest, best structured FAQ page, whose parts add up to 135
C20_Witness ==
  /\ arg.fn = "calculateQualityScore"
  /\ arg.textLength > 3000 /\ arg.headingCount > 3 /\ arg.h2 > 2
  /\ arg.qaCount > 5 /\ arg.pageType = "FAQ"
  /\ ret.value = 100

\* C21: normalizeUrl gives back its own results unchanged: normalising a
\* normalised URL changes nothing (fails: one "/" is cut from the end, so a
\* URL that ends with "//" is normalised to one that ends with "/")
C21_NormalizeIdempotent ==
  (arg.fn = "normalizeUrl" /\ ret.value # Null) => normalizeUrl(ret.value) = ret.value

\* a URL without fragment that does not end with a slash
IsNormalized(url) == ~Includes(url, <<"#">>) /\ ~EndsWith(url, <<"/">>)

\* C22: every URL in visited, every key of the pages and every URL of a
\* frontier entry has no fragment and does not end with a slash (fails: a
\* URL that ends with "//" keeps one slash when it is normalised)
C22_UrlsNormalized ==
  /\ \A u \in visited : IsNormalized(u)
  /\ \A u \in DOMAIN siteMap : IsNormalized(u)
  /\ \A i \in DOMAIN queue : IsNormalized(queue[i].url)

\* C23: the crawl leaves a page attempt only into the delay, whether the
\* fetch gave a page or failed; an attempt begins only at the top of the
\* loop, which is reached only from the delay or from the start of crawl():
\* a delay lies between any two fetches of a crawl
C23_DelayAfterEveryAttempt ==
  /\ [][(pc = "fetching" /\ pc' # "fetching") => pc' = "delay"]_vars
  /\ [][(pc' = "fetching" /\ pc # "fetching") => pc = "loop"]_vars
  /\ [][(pc' = "loop" /\ pc # "loop") => (pc = "delay" \/ fresh')]_vars

\* the attempt after a failed fetch has begun
C23_Witness ==
  /\ pc = "fetching"
  /\ Len(attempts) >= 2
  /\ attempts[Len(attempts) - 1].url \in failedUrls

\* C24: a crawl has emitted as many progress events as it has attempted
\* pages, the k-th event carrying pagesScanned = k, and the step that skips
\* a frontier entry emits none
C24_OneEventPerAttempt ==
  /\ [](Len(events) = Len(attempts) /\ \A k \in DOMAIN events : events[k] = k)
  /\ [][(pc = "loop" /\ skipped' # skipped) => events' = events]_vars

\* two events were emitted, one of them for a page whose fetch failed, and
\* an entry was skipped
C24_Witness == Len(events) >= 2 /\ failedUrls # {} /\ skipped # {}

SinglePageFetched(score) ==
  /\ maxPages = ScenarioMaxPages
  /\ cur = StartEntry(startUrl)
  /\ FetchReturn([kind |-> "ok", hrefs |-> << >>, score |-> score])

KeptPages(pages, output) ==
  SelectSeq(pages, LAMBDA page : \E k \in DOMAIN output : output[k].url = page.url)

\* the documents / vectors follow the order of the input pages
InInputOrder(pages, output) ==
  \A k, l \in DOMAIN output :
    k < l => \E i, j \in DOMAIN pages :
               i <= j /\ pages[i].url = output[k].url /\ pages[j].url = output[l].url

\* C27 as stated: the rag and the vectordb export keep, in input order, the
\* pages that score 30 or more and no other page
C27_ExportKeepsScored ==
  arg.fn = "exportData" =>
    /\ KeptPages(arg.pages, ret.value)
          = SelectSeq(arg.pages, LAMBDA page : page.qualityScore >= 30)
    /\ InInputOrder(arg.pages, ret.value)

\* C27 amended: the rag export has one document per page that scores 30 or
\* more, in input order; the vectordb export has vectors of such pages only,
\* in input order, and none for a page without a paragraph longer than 100
\* characters and without Q&A item
C27_ExportKeepsScoredWithChunks ==
  arg.fn = "exportData" =>
    /\ InInputOrder(arg.pages, ret.value)
    /\ IF arg.format = "rag"
       THEN [k \in DOMAIN ret.value |-> ret.value[k].url]
              = [k \in DOMAIN SelectSeq(arg.pages, LAMBDA page : page.qualityScore >= 30) |->
                   SelectSeq(arg.pages, LAMBDA page : page.qualityScore >= 30)[k].url]
       ELSE KeptPages(arg.pages, ret.value)
              = SelectSeq(arg.pages,
                          LAMBDA page :
                            /\ page.qualityScore >= 30
                            /\ \/ page.qaCount > 0
                               \/ \E i \in DOMAIN page.paragraphs : page.paragraphs[i] > 100)

\* a vectordb export of a page that scores 29 followed by a page that scores
\* 30: the vectors are those of the second page
C27_Witness ==
  /\ arg.fn = "exportData" /\ arg.format = "vectordb"
  /\ Len(arg.pages) = 2
  /\ arg.pages[1].qualityScore = 29 /\ arg.pages[1].qaCount > 0
  /\ arg.pages[2].qualityScore = 30
  /\ Len(ret.value) = 2
  /\ \A k \in DOMAIN ret.value : ret.value[k].url = arg.pages[2].url

\* C28: a scan whose request gives minQualityScore holds the record of a page
\* it has fetched and processed exactly when the page scores at least that
\* value (fails for the value 0, which `|| 30` replaces by 30)
C28_SuppliedMinScoreApplies ==
  \A id \in ScanIds :
    (/\ scans[id].status \in {"processing", "completed"}
     /\ scans[id].request.minQualityScore \in 0..100)
    => LET sc == heap[scans[id].scanner]
           pending == IF scans[id].pc = "fetching" THEN {scans[id].cur.url} ELSE {}
       IN  \A u \in sc.visited \ pending :
             Site[u].kind = "ok" =>
               (u \in DOMAIN sc.siteMap <=> Site[u].score >= scans[id].request.minQualityScore)

\* C29: a scan started with the documented body { url, options: { maxPages:
\* n, .. } } runs with maxPages = n and scans at most n pages (fails: the
\* handler reads maxPages at the top level of the body, and the scan runs
\* with the default of 50)
C29_DocumentedOptionsApply ==
  \A id \in ScanIds :
    (/\ scans[id].scanner # 0
     /\ scans[id].request.options.maxPages \in 1..500)
    => /\ heap[scans[id].scanner].options.maxPages = scans[id].request.options.maxPages
       /\ heap[scans[id].scanner].pagesScanned <= scans[id].request.options.maxPages

\* the value a request gives for an option: under "options" as documented,
\* or at the top level
Supplied(request, field) ==
  IF request.options[field] # Undefined THEN request.options[field] ELSE request[field]

\* a value is given for maxPages, maxDepth or delay that is outside 1..500,
\* 1..10, 100..5000
OutOfRange(request) ==
  \/ Supplied(request, "maxPages") # Undefined /\ Supplied(request, "maxPages") \notin 1..500
  \/ Supplied(request, "maxDepth") # Undefined /\ Supplied(request, "maxDepth") \notin 1..10
  \/ Supplied(request, "delay") # Undefined /\ Supplied(request, "delay") \notin 100..5000

\* C30: a request with maxPages, maxDepth or delay outside its range is
\* answered 400 and starts no scan (fails: the handler never calls
\* validateScanRequest, and answers 200 after starting the scan)
C30_OutOfRangeRejected ==
  \A id \in ScanIds :
    (scans[id].http # 0 /\ OutOfRange(scans[id].request))
    => scans[id].http = 400 /\ scans[id].status = "none" /\ scans[id].scanner = 0


\* C37: at every point of a crawl pagesScanned is the size of visited, and
\* every key of siteMap (the pages) is in visited (fails once Scan is pressed
\* while a stopped call still waits: the call that resumes stores its page
\* after the new call has cleared visited)
C37_CountsAgree ==
  /\ pagesScanned = Cardinality(visited)
  /\ DOMAIN siteMap \subseteq visited

\* the children listed in pageRelationships, with their parent and position
ChildSlots ==
  UNION {{<<p, i>> : i \in DOMAIN pageRelationships[p]} : p \in DOMAIN pageRelationships}

\* C38: pageRelationships is a tree rooted at the start URL: every child is a
\* visited URL other than the start URL, listed once, under the parent its
\* record names; every parent is a visited page; and the entry that is visited
\* is the first one enqueued for its URL (fails in the browser scanner, whose
\* second crawl starts on the entries the first one left in the queue)
C38_RelationshipsTree ==
  /\ [](pc \in {"loop", "fetching", "delay", "done"} =>
        /\ \A s \in ChildSlots :
             /\ pageRelationships[s[1]][s[2]] \in visited \ {startUrl}
             /\ s[1] \in visited
             /\ \A t \in ChildSlots :
                  pageRelationships[t[1]][t[2]] = pageRelationships[s[1]][s[2]] => t = s
             /\ pageRelationships[s[1]][s[2]] \in DOMAIN siteMap
                  => siteMap[pageRelationships[s[1]][s[2]]].parent = s[1]
        /\ \A u \in visited \ {startUrl} :
             \E s \in ChildSlots : pageRelationships[s[1]][s[2]] = u)
  /\ [][(pc = "loop" /\ pc' = "fetching") => \A e \in skipped : e.url # cur'.url]_vars


----------------------------------------------------------------------------
(* Properties of the proxy fallback *)

\* the strategies of a call in their priority order: the proxy cached for
\* the domain, the proxies of the list, the direct fetch
PriorityOrder(cached) ==
  (IF cached # NoProxy THEN <<cached>> ELSE << >>) \o proxies \o <<"direct">>

\* the response is ok and its text is longer than 100 characters and has an
\* HTML marker
PassesValidation(response) ==
  /\ response.kind = "response" /\ response.ok
  /\ response.length > 100 /\ response.marker

C39_NoProxyTwice ==
  \A j, k \in DOMAIN proxyFetch.tried :
    proxyFetch.tried[j] = proxyFetch.tried[k] => j = k


----------------------------------------------------------------------------
(* Properties of the serverless scan *)

\* C33: a serverless scan returns at most 5 pages, whatever maxPages the
\* request asks for (fails: api-scan caps maxPages at 10)
C33_AtMostFivePages == quick.pc = "returned" => Len(quick.results) <= 5

\* the largest number of requests of a scan with maxPages = m >= 1: one for
\* the start URL and, after each of the m - 1 pages that may queue links, at
\* most as many as the queue holds
FetchBound(m) == 1 + (m - 1) * 2 * m

\* no URL is requested twice, the queue holds at most 2 * maxPages entries
\* and the requests are at most FetchBound(maxPages)
QuickBounded ==
  /\ \A j, k \in DOMAIN quick.fetched : quick.fetched[j] = quick.fetched[k] => j = k
  /\ Len(quick.queue) <= 2 * quick.maxPages
  /\ Len(quick.fetched) <= FetchBound(quick.maxPages)

\* C40 as stated: the quickScan loop terminates, requests no URL twice,
\* holds at most 2 * maxPages entries in its queue, and makes a number of
\* requests bounded by a function of maxPages (fails for a negative maxPages
\* option: the queue holds the start URL)
C40_QuickScanBounded ==
  /\ [](quick.pc # "idle" => QuickBounded)
  /\ (quick.pc # "idle") ~> (quick.pc = "returned")

\* C40, amended: for maxPages >= 1 the loop terminates within the three
\* bounds; for a maxPages below 1 it returns without any request
C40_QuickScanBoundedFromOne ==
  /\ []((quick.pc # "idle" /\ quick.maxPages >= 1) => QuickBounded)
  /\ []((quick.pc # "idle" /\ quick.maxPages < 1) => quick.fetched = << >>)
  /\ (quick.pc # "idle") ~> (quick.pc = "returned")

\* a scan with maxPages = 2 that has filled its queue and made the largest
\* number of requests
C40_Witness ==
  /\ quick.pc = "returned"
  /\ quick.maxPages = 2
  /\ Len(quick.fetched) = FetchBound(2)


----------------------------------------------------------------------------
(* Properties of the API server with its queue *)

Terminal == {"completed", "failed"}

\* the position of a status in queued -> processing -> completed | failed
StatusRank(status) ==
  CASE status = "queued" -> 1
    [] status = "processing" -> 2
    [] status \in Terminal -> 3

\* C31: the status of a scan only moves forward along queued -> processing
\* -> completed or failed; completed and failed are never left, and a record
\* is never removed
C31_StatusForwardOnly ==
  [][\A id \in DOMAIN scanResults :
       /\ id \in DOMAIN scanResults'
       /\ StatusRank(scanResults'[id].status) >= StatusRank(scanResults[id].status)
       /\ scanResults[id].status \in Terminal =>
            scanResults'[id].status = scanResults[id].status]_vars

\* with the queue: a scan that went through all of queued, processing,
\* completed next to one that has failed
C31_Witness ==
  /\ queueOn
  /\ \E id \in DOMAIN scanResults : scanResults[id].status = "completed"
  /\ \E id \in DOMAIN scanResults : scanResults[id].status = "failed"

\* how often x occurs in the sequence
CountIn(seq, x) == Cardinality({k \in DOMAIN seq : seq[k] = x})

\* C32: a batch request with 1 to 10 URLs is answered with a new batchId
\* under which one job per URL is recorded, created with status queued, and
\* the batch status then reports totalJobs = the number of URLs (fails
\* without the queue: the request is answered 500 and no job is recorded)
C32_BatchOneJobPerUrl ==
  /\ [](\A k \in DOMAIN requests :
          (requests[k].kind = "batch" /\ Len(requests[k].urls) \in 1..MaxBatchUrls) =>
            /\ requests[k].http = 200
            /\ \A j \in DOMAIN requests : requests[j].id = requests[k].id => j = k
            /\ BatchStatus(requests[k].id).totalJobs = Len(requests[k].urls)
            /\ \A id \in JobsOf(requests[k].id) :
                 CountIn(requests[k].urls, scanResults[id].url) =
                   Cardinality({j \in JobsOf(requests[k].id) :
                                  scanResults[j].url = scanResults[id].url}))
  /\ [][\A id \in DOMAIN scanResults' \ DOMAIN scanResults :
          scanResults'[id].batchId # 0 => scanResults'[id].status = "queued"]_vars

\* C35: every scan accepted by POST /api/scan and every job of an accepted
\* batch eventually reports completed or failed, however the handler and the
\* worker interleave (fails: a worker that starts between scanQueue.add and
\* scanResults.set finds no record, and the record stays queued)
C35_AcceptedScanEnds ==
  \A id \in 1..(MaxBatchUrls + 1 + MaxRequests * (SmallBatch + 1)) :
    (id \in DOMAIN scanResults) ~> (id \in DOMAIN scanResults /\ scanResults[id].status \in Terminal)

\* C36: waitForBatchCompletion returns once every job of the batch is
\* completed or failed (fails: it returns only when all jobs are completed)
C36_BatchWaitReturns ==
  (/\ client.pc \in {"polling", "sleeping"}
   /\ handler.pc = "idle"
   /\ \A id \in JobsOf(client.batchId) : scanResults[id].status \in Terminal)
  ~> (client.pc = "returned")

====
